---- MODULE Spec2Model ----
(***************************************************************************)
(* Model of the deep-agent streaming translation layer.                    *)
(*                                                                         *)
(*   generate_stream   src/src/agent/services/api/routes/chat.py           *)
(*   Pipe.pipe         src/openwebui/deep_agent_pipe.py                    *)
(*                                                                         *)
(* Text is modelled as a sequence of characters (one-character strings);   *)
(* a code point outside ASCII is written by its name, e.g. "U+2713".       *)
(***************************************************************************)
EXTENDS Integers, Sequences, FiniteSets, TLC

(***************************************************************************)
(* Bounds of the model.                                                    *)
(***************************************************************************)
MaxEvents ==
    4

MaxConcEvents ==
    2

(***************************************************************************)
(* Text helpers: Python str operations on character sequences.             *)
(***************************************************************************)
MinOf(S) ==
    CHOOSE m \in S : \A n \in S : m <= n

IsSpace(c) ==
    c \in {" ", "\n", "\t", "\r"}

\* str.lstrip()
LStrip(s) ==
    LET keep == {i \in 1..Len(s) : ~IsSpace(s[i])}
    IN  IF keep = {} THEN <<>> ELSE SubSeq(s, MinOf(keep), Len(s))

\* str.rstrip()
RStrip(s) ==
    LET keep == {i \in 1..Len(s) : ~IsSpace(s[i])}
    IN  IF keep = {} THEN <<>>
        ELSE SubSeq(s, 1, CHOOSE m \in keep : \A n \in keep : n <= m)

\* str.strip()
Strip(s) ==
    RStrip(LStrip(s))

\* str.startswith(p)
StartsWith(s, p) ==
    Len(s) >= Len(p) /\ SubSeq(s, 1, Len(p)) = p

\* str.find(sub, start): 0-based index of the first occurrence at or after
\* start, -1 if there is none.
Find(s, sub, start) ==
    LET cands == {i \in start..(Len(s) - Len(sub)) :
                      SubSeq(s, i + 1, i + Len(sub)) = sub}
    IN  IF cands = {} THEN -1 ELSE MinOf(cands)

\* sub in s
Contains(s, sub) ==
    Find(s, sub, 0) # -1

\* s[a:b] for 0 <= a, 0 <= b
Slice(s, a, b) ==
    SubSeq(s, a + 1, IF b < Len(s) THEN b ELSE Len(s))

RECURSIVE Concat(_)
\* "".join(parts), joined by halves
Concat(parts) ==
    IF parts = <<>> THEN <<>>
    ELSE IF Len(parts) = 1 THEN parts[1]
    ELSE LET h == Len(parts) \div 2
         IN  Concat(SubSeq(parts, 1, h))
               \o Concat(SubSeq(parts, h + 1, Len(parts)))

(***************************************************************************)
(* String literals of chat.py.                                             *)
(***************************************************************************)
DetailsOpen ==
    <<"\n", "<", "d", "e", "t", "a", "i", "l", "s", " ", "o", "p", "e",
      "n", ">", "\n", "<", "s", "u", "m", "m", "a", "r", "y", ">",
      "U+1F50D", " ", "E", "x", "e", "c", "u", "t", "i", "o", "n", " ",
      "S", "t", "e", "p", "s", "<", "/", "s", "u", "m", "m", "a", "r", "y",
      ">", "\n", "\n">>

SubAgentPrefix ==
    <<"*", "*", "U+1F527", " ", "S", "u", "b", "-", "a", "g", "e", "n",
      "t", ":", "*", "*", " ">>

AIPrefix ==
    <<"*", "*", "U+1F916", " ", "A", "I", ":", "*", "*", " ">>

BlankLine ==
    <<"\n", "\n">>

DetailsClose ==
    <<"\n", "<", "/", "d", "e", "t", "a", "i", "l", "s", ">", "\n", "\n">>

Completed ==
    <<"U+2713", " ", "c", "o", "m", "p", "l", "e", "t", "e", "d">>

CommandMarker ==
    <<"C", "o", "m", "m", "a", "n", "d", "(">>

ToolMessageMarker ==
    <<"T", "o", "o", "l", "M", "e", "s", "s", "a", "g", "e", "(", "c", "o",
      "n", "t", "e", "n", "t", "=">>

ToolLabelOpen ==
    <<"*", "*", "U+1F527", " ">>

ToolLabelClose ==
    <<":", "*", "*", " ">>

\* the delegation tool name, "task"
TaskName ==
    <<"t", "a", "s", "k">>

\* event.get("name", "tool")
DefaultToolName ==
    <<"t", "o", "o", "l">>

\* an ordinary tool of the agent, "ls"
LsName ==
    <<"l", "s">>

ContentKey ==
    <<"c", "o", "n", "t", "e", "n", "t">>

MessageKey ==
    <<"m", "e", "s", "s", "a", "g", "e">>

(***************************************************************************)
(* Python values, as json.loads returns them and as a tool may return      *)
(* them: k is the Python type.  "str" and "int" carry their text, "lit" is *)
(* one of None, True, False (s is str(value)), "pyobj" is any other object *)
(* (s is str(object)), "arr" is a list and "obj" a dict in insertion order.*)
(***************************************************************************)
JStr(s) ==
    [k |-> "str", s |-> s]

JInt(s) ==
    [k |-> "int", s |-> s]

JLit(s) ==
    [k |-> "lit", s |-> s]

JArr(items) ==
    [k |-> "arr", items |-> items]

JObj(keys, vals) ==
    [k |-> "obj", keys |-> keys, vals |-> vals]

PyObj(s) ==
    [k |-> "pyobj", s |-> s]

PyNone ==
    JLit(<<"N", "o", "n", "e">>)

PyTrue ==
    JLit(<<"T", "r", "u", "e">>)

PyFalse ==
    JLit(<<"F", "a", "l", "s", "e">>)

ParseFail ==
    [ok |-> FALSE, v |-> PyNone, pos |-> 0]

ParseOk(v, pos) ==
    [ok |-> TRUE, v |-> v, pos |-> pos]

Digits ==
    {"0", "1", "2", "3", "4", "5", "6", "7", "8", "9"}

\* dict[key] = val: a repeated key keeps its first position and takes the
\* last value
DictSet(keys, vals, key, val) ==
    IF \E i \in 1..Len(keys) : keys[i] = key
    THEN LET i == CHOOSE j \in 1..Len(keys) : keys[j] = key
         IN  [keys |-> keys, vals |-> [vals EXCEPT ![i] = val]]
    ELSE [keys |-> Append(keys, key), vals |-> Append(vals, val)]

\* json.decoder WHITESPACE.match(s, p).end()
SkipWs(s, p) ==
    LET stop == {i \in p..Len(s) : ~IsSpace(s[i])}
    IN  IF stop = {} THEN (IF p > Len(s) THEN p ELSE Len(s) + 1)
        ELSE MinOf(stop)

\* json.decoder BACKSLASH: the character a simple escape stands for
Unescape(c) ==
    CASE c = "\"" -> "\""
      [] c = "\\" -> "\\"
      [] c = "/" -> "/"
      [] c = "n" -> "\n"
      [] c = "t" -> "\t"
      [] c = "r" -> "\r"
      [] c = "b" -> "U+8"
      [] c = "f" -> "U+C"

\* the number of consecutive backslashes of s that end right before
\* position i, counted from position p on
BackslashRun(s, p, i) ==
    CHOOSE k \in 0..(i - p) :
        /\ \A j \in (i - k)..(i - 1) : s[j] = "\\"
        /\ (i - k > p) => s[i - k - 1] # "\\"

\* position i of a string body that starts at p holds a backslash that
\* begins an escape
IsEscape(s, p, i) ==
    s[i] = "\\" /\ BackslashRun(s, p, i) % 2 = 0

\* the character of the string body at position i, decoded
Decoded(s, p, i) ==
    IF IsEscape(s, p, i) THEN <<>>
    ELSE IF i > p /\ IsEscape(s, p, i - 1) THEN <<Unescape(s[i])>>
    ELSE <<s[i]>>

\* py_scanstring once the closing quote q is known: the body p..q-1 must
\* hold no control character and no unknown escape
ScanStringTo(s, p, acc, q) ==
    IF \E i \in p..(q - 1) :
           \/ s[i] \in {"\n", "\t", "\r", "U+8", "U+C"}
           \/ IsEscape(s, p, i)
                /\ s[i + 1] \notin {"\"", "\\", "/", "n", "t", "r", "b", "f"}
    THEN ParseFail
    ELSE ParseOk(acc \o Concat([k \in 1..(q - p) |-> Decoded(s, p, p + k - 1)]),
                 q + 1)

\* py_scanstring, given the positions close of the quotes that can end the
\* string
ScanStringClose(s, p, acc, close) ==
    IF close = {} THEN ParseFail ELSE ScanStringTo(s, p, acc, MinOf(close))

\* json.decoder.py_scanstring (strict): p is the position after the opening
\* quote; the string ends at the first quote that no backslash escapes.
\* \uXXXX escapes are outside the modelled inputs.
ScanString(s, p, acc) ==
    ScanStringClose(s, p, acc,
        {q \in p..Len(s) : s[q] = "\"" /\ BackslashRun(s, p, q) % 2 = 0})

\* the end of the run of digits that starts at p
ScanDigits(s, p) ==
    LET stop == {i \in p..Len(s) : s[i] \notin Digits}
    IN  IF stop = {} THEN (IF p > Len(s) THEN p ELSE Len(s) + 1)
        ELSE MinOf(stop)

\* NUMBER_RE once the integer part q..e-1 is known
ScanNumberTo(s, p, q, e) ==
    IF e = q THEN ParseFail
    ELSE IF e <= Len(s) /\ s[e] \in {".", "e", "E"} THEN ParseFail
    ELSE ParseOk(JInt(IF s[p] = "-" /\ SubSeq(s, q, e - 1) # <<"0">>
                      THEN <<"-">> \o SubSeq(s, q, e - 1)
                      ELSE SubSeq(s, q, e - 1)), e)

\* NUMBER_RE once the position q after the sign is known
ScanNumberFrom(s, p, q) ==
    ScanNumberTo(s, p, q,
                 IF q <= Len(s) /\ s[q] = "0" THEN q + 1 ELSE ScanDigits(s, q))

\* json.scanner NUMBER_RE, integers: -?(0|[1-9]\d*).  A fraction or an
\* exponent (a float) is outside the modelled inputs.
ScanNumber(s, p) ==
    ScanNumberFrom(s, p, IF s[p] = "-" THEN p + 1 ELSE p)

RECURSIVE ScanValue(_, _)
RECURSIVE ScanMembers(_, _, _, _)
RECURSIVE ScanItems(_, _, _)

\* JSONObject after a member: e is the position after the value and its
\* white space, d the dict so far
MemberNext(s, d, e) ==
    IF e > Len(s) THEN ParseFail
    ELSE IF s[e] = "}" THEN ParseOk(JObj(d.keys, d.vals), e + 1)
    ELSE IF s[e] = "," THEN ScanMembers(s, SkipWs(s, e + 1), d.keys, d.vals)
    ELSE ParseFail

\* JSONObject after the value val of key k was scanned
MemberAfterValue(s, keys, vals, k, val) ==
    IF ~val.ok THEN ParseFail
    ELSE MemberNext(s, DictSet(keys, vals, k, val.v), SkipWs(s, val.pos))

\* JSONObject after key k: c is the position where the colon must be
MemberColon(s, keys, vals, k, c) ==
    IF c > Len(s) \/ s[c] # ":" THEN ParseFail
    ELSE MemberAfterValue(s, keys, vals, k, ScanValue(s, SkipWs(s, c + 1)))

\* JSONObject after the key was scanned
MemberAfterKey(s, keys, vals, key) ==
    IF ~key.ok THEN ParseFail
    ELSE MemberColon(s, keys, vals, key.v, SkipWs(s, key.pos))

\* json.decoder.JSONObject: p is at the opening quote of the next key
ScanMembers(s, p, keys, vals) ==
    IF p > Len(s) \/ s[p] # "\"" THEN ParseFail
    ELSE MemberAfterKey(s, keys, vals, ScanString(s, p + 1, <<>>))

\* JSONArray after an item: e is the position after the item and its white
\* space
ItemNext(s, items, e) ==
    IF e > Len(s) THEN ParseFail
    ELSE IF s[e] = "]" THEN ParseOk(JArr(items), e + 1)
    ELSE IF s[e] = "," THEN ScanItems(s, SkipWs(s, e + 1), items)
    ELSE ParseFail

\* JSONArray after the item val was scanned
ItemAfterValue(s, items, val) ==
    IF ~val.ok THEN ParseFail
    ELSE ItemNext(s, Append(items, val.v), SkipWs(s, val.pos))

\* json.decoder.JSONArray: p is at the first character of the next item
ScanItems(s, p, items) ==
    ItemAfterValue(s, items, ScanValue(s, p))

\* a scanned string as a value
StringValue(r) ==
    IF r.ok THEN ParseOk(JStr(r.v), r.pos) ELSE ParseFail

\* JSONObject: q is the position after the brace and its white space
ScanObject(s, q) ==
    IF q <= Len(s) /\ s[q] = "}" THEN ParseOk(JObj(<<>>, <<>>), q + 1)
    ELSE ScanMembers(s, q, <<>>, <<>>)

\* JSONArray: q is the position after the bracket and its white space
ScanArray(s, q) ==
    IF q <= Len(s) /\ s[q] = "]" THEN ParseOk(JArr(<<>>), q + 1)
    ELSE ScanItems(s, q, <<>>)

\* json.scanner.py_make_scanner._scan_once
ScanValue(s, p) ==
    IF p > Len(s) THEN ParseFail
    ELSE IF s[p] = "\"" THEN StringValue(ScanString(s, p + 1, <<>>))
    ELSE IF s[p] = "{" THEN ScanObject(s, SkipWs(s, p + 1))
    ELSE IF s[p] = "[" THEN ScanArray(s, SkipWs(s, p + 1))
    ELSE IF Slice(s, p - 1, p + 3) = <<"n", "u", "l", "l">>
         THEN ParseOk(PyNone, p + 4)
    ELSE IF Slice(s, p - 1, p + 3) = <<"t", "r", "u", "e">>
         THEN ParseOk(PyTrue, p + 4)
    ELSE IF Slice(s, p - 1, p + 4) = <<"f", "a", "l", "s", "e">>
         THEN ParseOk(PyFalse, p + 5)
    ELSE IF s[p] \in Digits \cup {"-"} THEN ScanNumber(s, p)
    ELSE ParseFail

\* json.decoder.JSONDecoder.decode: nothing but white space may follow the
\* value
DecodeEnd(s, r) ==
    IF r.ok /\ SkipWs(s, r.pos) = Len(s) + 1 THEN r ELSE ParseFail

\* json.loads(s): ok is FALSE where json.JSONDecodeError is raised
JsonLoads(s) ==
    DecodeEnd(s, ScanValue(s, SkipWs(s, 1)))

(***************************************************************************)
(* str(), repr() and json.dumps of Python values.                          *)
(***************************************************************************)
\* the body of repr(str) inside the quote character q
EscapeWith(s, q) ==
    Concat([i \in 1..Len(s) |->
        LET c == s[i]
        IN  CASE c = "\\" -> <<"\\", "\\">>
              [] c = "\n" -> <<"\\", "n">>
              [] c = "\t" -> <<"\\", "t">>
              [] c = "\r" -> <<"\\", "r">>
              [] c = "U+8" -> <<"\\", "x", "0", "8">>
              [] c = "U+C" -> <<"\\", "x", "0", "c">>
              [] c = q -> <<"\\", q>>
              [] OTHER -> <<c>>])

\* repr(s) of a str: double quotes only if s has a ' and no "
ReprStr(s) ==
    LET q == IF Contains(s, <<"'">>) /\ ~Contains(s, <<"\"">>)
             THEN "\"" ELSE "'"
    IN  <<q>> \o EscapeWith(s, q) \o <<q>>

RECURSIVE JoinWith(_, _)
\* sep.join(parts)
JoinWith(parts, sep) ==
    IF parts = <<>> THEN <<>>
    ELSE IF Len(parts) = 1 THEN parts[1]
    ELSE parts[1] \o sep \o JoinWith(Tail(parts), sep)

RECURSIVE PyRepr(_)
\* repr(v)
PyRepr(v) ==
    CASE v.k = "str" -> ReprStr(v.s)
      [] v.k \in {"int", "lit", "pyobj"} -> v.s
      [] v.k = "arr" ->
           <<"[">> \o JoinWith([i \in 1..Len(v.items) |-> PyRepr(v.items[i])],
                               <<",", " ">>) \o <<"]">>
      [] v.k = "obj" ->
           <<"{">> \o JoinWith([i \in 1..Len(v.keys) |->
                                   ReprStr(v.keys[i]) \o <<":", " ">>
                                       \o PyRepr(v.vals[i])],
                               <<",", " ">>) \o <<"}">>

\* str(v)
PyStr(v) ==
    IF v.k = "str" THEN v.s ELSE PyRepr(v)

\* json.encoder.py_encode_basestring_ascii, for ASCII text
JsonEscape(s) ==
    Concat([i \in 1..Len(s) |->
        LET c == s[i]
        IN  CASE c = "\"" -> <<"\\", "\"">>
              [] c = "\\" -> <<"\\", "\\">>
              [] c = "\n" -> <<"\\", "n">>
              [] c = "\t" -> <<"\\", "t">>
              [] c = "\r" -> <<"\\", "r">>
              [] c = "U+8" -> <<"\\", "b">>
              [] c = "U+C" -> <<"\\", "f">>
              [] OTHER -> <<c>>])

RECURSIVE JsonDumps(_)
\* json.dumps(v, default=str): an object json cannot encode is replaced by
\* str(object)
JsonDumps(v) ==
    CASE v.k \in {"str", "pyobj"} -> <<"\"">> \o JsonEscape(v.s) \o <<"\"">>
      [] v.k = "int" -> v.s
      [] v.k = "lit" ->
           IF v = PyNone THEN <<"n", "u", "l", "l">>
           ELSE IF v = PyTrue THEN <<"t", "r", "u", "e">>
           ELSE <<"f", "a", "l", "s", "e">>
      [] v.k = "arr" ->
           <<"[">> \o JoinWith([i \in 1..Len(v.items) |->
                                   JsonDumps(v.items[i])],
                               <<",", " ">>) \o <<"]">>
      [] v.k = "obj" ->
           <<"{">> \o JoinWith([i \in 1..Len(v.keys) |->
                                   <<"\"">> \o JsonEscape(v.keys[i])
                                       \o <<"\"", ":", " ">>
                                       \o JsonDumps(v.vals[i])],
                               <<",", " ">>) \o <<"}">>

(***************************************************************************)
(* The result normalizer of chat.py.                                       *)
(***************************************************************************)
\* truncate's default max_len, and the cut of str(data[key])[:200]
PreviewLen ==
    200

\* truncate without the cut
truncateNothing(text) ==
    text

\* truncate(text, max_len=200)
truncate(text) ==
    IF Len(text) > PreviewLen
    THEN Slice(text, 0, PreviewLen) \o <<".", ".", ".">>
    ELSE text

\* data[key]
DictGet(d, key) ==
    d.vals[CHOOSE i \in 1..Len(d.keys) : d.keys[i] = key]

\* key in data
DictHas(d, key) ==
    \E i \in 1..Len(d.keys) : d.keys[i] = key

\* output[start:end] if end > start, for the quotes found at start - 1 and
\* end
QuotedPayload(output, start, end) ==
    IF end > start THEN Slice(output, start, end) ELSE Completed

\* the text from position start to the next single quote
PayloadFrom(output, start) ==
    QuotedPayload(output, start, Find(output, <<"'">>, start))

\* the Command( branch of clean_tool_result
CommandPayload(output) ==
    IF Contains(output, ToolMessageMarker)
    THEN PayloadFrom(output,
             Find(output, <<"'">>, Find(output, ToolMessageMarker, 0)) + 1)
    ELSE Completed

\* PayloadOf looking for the key message before the key content
PayloadOfMessageFirst(output, r) ==
    IF ~r.ok THEN [hit |-> FALSE, text |-> output]
    ELSE IF r.v.k = "obj" /\ DictHas(r.v, MessageKey)
         THEN [hit |-> TRUE,
               text |-> Slice(PyStr(DictGet(r.v, MessageKey)), 0, PreviewLen)]
    ELSE IF r.v.k = "obj" /\ DictHas(r.v, ContentKey)
         THEN [hit |-> TRUE,
               text |-> Slice(PyStr(DictGet(r.v, ContentKey)), 0, PreviewLen)]
    ELSE [hit |-> TRUE, text |-> Completed]

\* the JSON branch of clean_tool_result after json.loads returned r: hit is
\* FALSE where the code falls through to its last return
\* (json.JSONDecodeError)
PayloadOf(output, r) ==
    IF ~r.ok THEN [hit |-> FALSE, text |-> output]
    ELSE IF r.v.k = "obj" /\ DictHas(r.v, ContentKey)
         THEN [hit |-> TRUE,
               text |-> Slice(PyStr(DictGet(r.v, ContentKey)), 0, PreviewLen)]
    ELSE IF r.v.k = "obj" /\ DictHas(r.v, MessageKey)
         THEN [hit |-> TRUE,
               text |-> Slice(PyStr(DictGet(r.v, MessageKey)), 0, PreviewLen)]
    ELSE [hit |-> TRUE, text |-> Completed]

\* the JSON branch of clean_tool_result
JsonPayload(output) ==
    PayloadOf(output, JsonLoads(output))

\* the result of the JSON branch, or the raw text
PayloadOrRaw(output, j) ==
    IF j.hit THEN j.text ELSE output

\* clean_tool_result(output)
clean_tool_result(output) ==
    IF output = <<>> \/ Strip(output) = <<>> THEN Completed
    ELSE IF StartsWith(output, CommandMarker) THEN CommandPayload(output)
    ELSE IF StartsWith(output, <<"{">>) \/ StartsWith(output, <<"[">>)
         THEN PayloadOrRaw(output, JsonPayload(output))
    ELSE output

\* html.escape(s), quote=True
html_escape(s) ==
    Concat([i \in 1..Len(s) |->
        LET c == s[i]
        IN  CASE c = "&" -> <<"&", "a", "m", "p", ";">>
              [] c = "<" -> <<"&", "l", "t", ";">>
              [] c = ">" -> <<"&", "g", "t", ";">>
              [] c = "\"" -> <<"&", "q", "u", "o", "t", ";">>
              [] c = "'" -> <<"&", "#", "x", "2", "7", ";">>
              [] OTHER -> <<c>>])

\* format_tool_result(name, result)
format_tool_result(name, result) ==
    ToolLabelOpen \o name \o ToolLabelClose
        \o html_escape(truncate(clean_tool_result(result))) \o BlankLine

\* extract_text_content(content): content is a Python value; a list item
\* that is a dict is an "obj"
extract_text_content(content) ==
    IF content.k = "str" THEN content.s
    ELSE IF content.k = "arr"
         THEN Concat([i \in 1..Len(content.items) |->
                 LET block == content.items[i]
                 IN  IF block.k = "obj" /\ DictHas(block, <<"t", "y", "p", "e">>)
                        /\ DictGet(block, <<"t", "y", "p", "e">>)
                               = JStr(<<"t", "e", "x", "t">>)
                     THEN IF DictHas(block, <<"t", "e", "x", "t">>)
                          THEN DictGet(block, <<"t", "e", "x", "t">>).s
                          ELSE <<>>
                     ELSE IF block.k = "str" THEN block.s
                     ELSE <<>>])
    ELSE <<>>

(***************************************************************************)
(* Raw events of agent.astream_events.  A key the event does not have is   *)
(* marked by its has_ flag; run_id is event.get("run_id"), None when the   *)
(* event has no run identifier.                                            *)
(***************************************************************************)
None ==
    "None"

RunIds ==
    {"r1", "r2"}

Event(kind, run_id) ==
    [has_event |-> TRUE, event |-> kind, run_id |-> run_id,
     has_name |-> FALSE, name |-> <<>>,
     has_data |-> FALSE, has_chunk |-> FALSE, content |-> PyNone,
     has_output |-> FALSE, output |-> PyNone]

\* on_chat_model_stream with data.chunk.content = content
TokenEvent(content) ==
    [Event("on_chat_model_stream", "m1") EXCEPT
        !.has_data = TRUE, !.has_chunk = TRUE, !.content = content]

\* on_tool_start with a name
StartEvent(run_id, name) ==
    [Event("on_tool_start", run_id) EXCEPT !.has_name = TRUE, !.name = name]

\* on_tool_end with data.output = output
EndEvent(run_id, output) ==
    [Event("on_tool_end", run_id) EXCEPT
        !.has_data = TRUE, !.has_output = TRUE, !.output = output]

TextBlock(text) ==
    JObj(<<<<"t", "y", "p", "e">>, <<"t", "e", "x", "t">>>>,
         <<JStr(<<"t", "e", "x", "t">>), JStr(text)>>)

ToolUseBlock ==
    JObj(<<<<"t", "y", "p", "e">>>>, <<JStr(<<"t", "o", "o", "l">>)>>)

TokenEvents ==
    { TokenEvent(JStr(<<"a">>)),
      TokenEvent(JStr(<<" ">>)),
      TokenEvent(JStr(<<>>)),
      TokenEvent(JArr(<<TextBlock(<<"b">>), ToolUseBlock, JStr(<<"c">>)>>)),
      TokenEvent(PyNone) }

StartEvents ==
    { StartEvent("r1", TaskName), StartEvent("r2", TaskName),
      StartEvent("r2", LsName),
      Event("on_tool_start", "r1") }

EndEvents ==
    { EndEvent("r1", JStr(<<"o", "k">>)),
      EndEvent("r2", JStr(<<"o", "k">>)),
      EndEvent("r2", PyNone),
      [Event("on_tool_end", "r1") EXCEPT !.has_data = TRUE] }

\* kinds generate_stream has no branch for
OtherEvents ==
    { Event("on_chain_start", "r1"),
      [EndEvent("r1", JStr(<<"o", "k">>)) EXCEPT !.event = "on_chain_end"] }

\* events whose shape lacks a key the handler of their kind reads
MalformedEvents ==
    { [Event("", "r1") EXCEPT !.has_event = FALSE],
      Event("on_chat_model_stream", "m1"),
      [Event("on_chat_model_stream", "m1") EXCEPT !.has_data = TRUE],
      Event("on_tool_end", "r1"),
      StartEvent(None, TaskName) }

Events ==
    TokenEvents \cup StartEvents \cup EndEvents \cup OtherEvents
        \cup MalformedEvents

(***************************************************************************)
(* generate_stream: the locals of one call and one pass of the loop body.  *)
(***************************************************************************)
\* json.dumps({"content": text})
ContentFrame(text) ==
    [content |-> text]

\* json.dumps({"done": True})
DoneFrame ==
    [done |-> TRUE]

\* the locals of generate_stream before the loop
InitLocals ==
    [current_ai_content |-> <<>>,
     tool_info |-> <<>>,
     collapse_open |-> FALSE,
     streaming_ai |-> FALSE,
     subagent_stack |-> <<>>]

\* the outcome of one pass: the locals after it, the frames it yielded and
\* whether it left the generator by an exception
Pass(locals, frames) ==
    [locals |-> locals, frames |-> frames, raised |-> FALSE]

Raise(locals) ==
    [locals |-> locals, frames |-> <<>>, raised |-> TRUE]

\* tool_info[run_id] = {"name": tool_name}
RecordTool(tool_info, run_id, tool_name) ==
    [r \in DOMAIN tool_info \cup {run_id} |->
        IF r = run_id THEN [name |-> tool_name] ELSE tool_info[r]]

\* IsToolEnd without the membership test (run_id in tool_info)
IsToolEndAnyRun(e, tool_info) ==
    e.event = "on_tool_end"

\* IsToolEnd as a plain else branch, without the test of the kind
IsToolEndAnyKind(e, tool_info) ==
    e.run_id \in DOMAIN tool_info

\* the elif condition of the end branch
IsToolEnd(e, tool_info) ==
    e.event = "on_tool_end" /\ e.run_id \in DOMAIN tool_info

\* tool_name == "task"
IsDelegation(tool_name) ==
    tool_name = TaskName

\* IsTopOfStack without the comparison with the top: any end pops
IsTopOfStackAny(subagent_stack, run_id) ==
    subagent_stack # <<>>

\* subagent_stack and subagent_stack[-1] == run_id
IsTopOfStack(subagent_stack, run_id) ==
    subagent_stack # <<>> /\ subagent_stack[Len(subagent_stack)] = run_id

\* OpenCollapse without the test of collapse_open
OpenCollapseAlways(collapse_open) ==
    <<ContentFrame(DetailsOpen)>>

\* the frame that opens the details block, if it is not open yet
OpenCollapse(collapse_open) ==
    IF collapse_open THEN <<>> ELSE <<ContentFrame(DetailsOpen)>>

\* the frame that ends a streamed AI segment, if one is being streamed
EndSegment(streaming_ai) ==
    IF streaming_ai THEN <<ContentFrame(BlankLine)>> ELSE <<>>

\* OnChatModelStream yielding the accumulated text instead of the token
OnChatModelStreamBuffered(l, e, show) ==
    IF ~e.has_data \/ ~e.has_chunk THEN Raise(l)
    ELSE
    LET content == extract_text_content(e.content)
    IN  IF content = <<>> THEN Pass(l, <<>>)
        ELSE IF ~show
             THEN Pass([l EXCEPT !.current_ai_content = @ \o content], <<>>)
        ELSE Pass([l EXCEPT !.current_ai_content = @ \o content,
                            !.collapse_open = TRUE,
                            !.streaming_ai = TRUE],
                  OpenCollapse(l.collapse_open)
                    \o (IF l.streaming_ai THEN <<>>
                        ELSE <<ContentFrame(IF l.subagent_stack # <<>>
                                            THEN SubAgentPrefix
                                            ELSE AIPrefix)>>)
                    \o <<ContentFrame(l.current_ai_content \o content)>>)

\* the on_chat_model_stream branch
OnChatModelStream(l, e, show) ==
    IF ~e.has_data \/ ~e.has_chunk THEN Raise(l)
    ELSE
    LET content == extract_text_content(e.content)
    IN  IF content = <<>> THEN Pass(l, <<>>)
        ELSE IF ~show
             THEN Pass([l EXCEPT !.current_ai_content = @ \o content], <<>>)
        ELSE Pass([l EXCEPT !.current_ai_content = @ \o content,
                            !.collapse_open = TRUE,
                            !.streaming_ai = TRUE],
                  OpenCollapse(l.collapse_open)
                    \o (IF l.streaming_ai THEN <<>>
                        ELSE <<ContentFrame(IF l.subagent_stack # <<>>
                                            THEN SubAgentPrefix
                                            ELSE AIPrefix)>>)
                    \o <<ContentFrame(content)>>)

\* the on_tool_start branch
OnToolStart(l, e, show) ==
    LET tool_name == IF e.has_name THEN e.name ELSE DefaultToolName
        recorded == [l EXCEPT
                       !.tool_info = RecordTool(@, e.run_id, tool_name)]
        shown == IF show
                 THEN [recorded EXCEPT !.streaming_ai = FALSE,
                                       !.current_ai_content = <<>>,
                                       !.collapse_open = TRUE]
                 ELSE recorded
        frames == IF show
                  THEN EndSegment(l.streaming_ai)
                         \o OpenCollapse(l.collapse_open)
                  ELSE <<>>
    IN  IF IsDelegation(tool_name)
        THEN Pass([shown EXCEPT !.subagent_stack = Append(@, e.run_id)],
                  frames)
        ELSE Pass(shown, frames)

\* output_str of the on_tool_end branch: event["data"].get("output", "") as
\* text
OutputStr(e) ==
    LET tool_output == IF e.has_output THEN e.output ELSE JStr(<<>>)
    IN  IF tool_output.k = "str" THEN tool_output.s
        ELSE JsonDumps(tool_output)

\* OnToolEnd calling json.dumps without default=str: an output json cannot
\* encode raises TypeError
OnToolEndNoDefault(l, e, show) ==
    IF ~e.has_data THEN Raise(l)
    ELSE IF e.run_id \notin DOMAIN l.tool_info THEN Raise(l)
    ELSE IF e.has_output /\ e.output.k = "pyobj" THEN Raise(l)
    ELSE
    LET output_str == OutputStr(e)
        tool_name == l.tool_info[e.run_id].name
    IN  IF IsTopOfStack(l.subagent_stack, e.run_id)
        THEN Pass([l EXCEPT !.subagent_stack = SubSeq(@, 1, Len(@) - 1)],
                  <<>>)
        ELSE IF ~show THEN Pass(l, <<>>)
        ELSE Pass([l EXCEPT !.streaming_ai = FALSE, !.collapse_open = TRUE],
                  EndSegment(l.streaming_ai)
                    \o OpenCollapse(l.collapse_open)
                    \o <<ContentFrame(format_tool_result(tool_name,
                                                         output_str))>>)

\* OnToolEnd without the continue after the pop: the end that pops is
\* reported like any other
OnToolEndPopReports(l, e, show) ==
    IF ~e.has_data THEN Raise(l)
    ELSE IF e.run_id \notin DOMAIN l.tool_info THEN Raise(l)
    ELSE IF ~show
         THEN Pass([l EXCEPT !.subagent_stack =
                       IF IsTopOfStack(l.subagent_stack, e.run_id)
                       THEN SubSeq(@, 1, Len(@) - 1) ELSE @],
                   <<>>)
    ELSE Pass([l EXCEPT !.subagent_stack =
                  IF IsTopOfStack(l.subagent_stack, e.run_id)
                  THEN SubSeq(@, 1, Len(@) - 1) ELSE @,
                        !.streaming_ai = FALSE, !.collapse_open = TRUE],
              EndSegment(l.streaming_ai)
                \o OpenCollapse(l.collapse_open)
                \o <<ContentFrame(format_tool_result(
                                     l.tool_info[e.run_id].name,
                                     OutputStr(e)))>>)

\* the on_tool_end branch
OnToolEnd(l, e, show) ==
    IF ~e.has_data THEN Raise(l)
    ELSE IF e.run_id \notin DOMAIN l.tool_info THEN Raise(l)
    ELSE
    LET output_str == OutputStr(e)
        tool_name == l.tool_info[e.run_id].name
    IN  IF IsTopOfStack(l.subagent_stack, e.run_id)
        THEN Pass([l EXCEPT !.subagent_stack = SubSeq(@, 1, Len(@) - 1)],
                  <<>>)
        ELSE IF ~show THEN Pass(l, <<>>)
        ELSE Pass([l EXCEPT !.streaming_ai = FALSE, !.collapse_open = TRUE],
                  EndSegment(l.streaming_ai)
                    \o OpenCollapse(l.collapse_open)
                    \o <<ContentFrame(format_tool_result(tool_name,
                                                         output_str))>>)

\* one pass of the async for body on event e
HandleEvent(l, e, show) ==
    IF ~e.has_event THEN Raise(l)
    ELSE IF e.event = "on_chat_model_stream" THEN OnChatModelStream(l, e, show)
    ELSE IF e.event = "on_tool_start" THEN OnToolStart(l, e, show)
    ELSE IF IsToolEnd(e, l.tool_info) THEN OnToolEnd(l, e, show)
    ELSE Pass(l, <<>>)

\* the frames yielded after the loop
Finalize(l) ==
    EndSegment(l.streaming_ai)
      \o (IF l.collapse_open THEN <<ContentFrame(DetailsClose)>> ELSE <<>>)
      \o (IF Strip(l.current_ai_content) # <<>>
          THEN <<ContentFrame(l.current_ai_content)>> ELSE <<>>)
      \o <<DoneFrame>>

(***************************************************************************)
(* One request: the state of one generate_stream call.                     *)
(***************************************************************************)
\* the value of a variable of a specification that is not running
Idle ==
    [pc |-> "idle"]

VARIABLES
    show_tool_details,   \* the parameter of the call
    current_ai_content, tool_info, collapse_open, streaming_ai,
    subagent_stack,      \* the locals
    pc,                  \* "streaming", "closed" (returned), "raised"
    out,                 \* the frames yielded so far
    consumed,            \* the events taken from astream_events so far
    reqs,                \* two concurrent calls (specification SpecConc)
    norm,                \* one tool result being normalized (SpecNorm)
    client,              \* one Pipe._stream_response call (SpecClient)
    owui                 \* one Open WebUI Pipe.pipe call (SpecOwui)

vars ==
    <<show_tool_details, current_ai_content, tool_info, collapse_open,
      streaming_ai, subagent_stack, pc, out, consumed, reqs, norm, client,
      owui>>

Locals ==
    [current_ai_content |-> current_ai_content,
     tool_info |-> tool_info,
     collapse_open |-> collapse_open,
     streaming_ai |-> streaming_ai,
     subagent_stack |-> subagent_stack]

SetLocals(l) ==
    /\ current_ai_content' = l.current_ai_content
    /\ tool_info' = l.tool_info
    /\ collapse_open' = l.collapse_open
    /\ streaming_ai' = l.streaming_ai
    /\ subagent_stack' = l.subagent_stack

\* one generate_stream call as a record, for SpecConc
InitCall(show) ==
    [show_tool_details |-> show, locals |-> InitLocals, pc |-> "streaming",
     out |-> <<>>, consumed |-> <<>>]

Init ==
    /\ show_tool_details \in BOOLEAN
    /\ current_ai_content = InitLocals.current_ai_content
    /\ tool_info = InitLocals.tool_info
    /\ collapse_open = InitLocals.collapse_open
    /\ streaming_ai = InitLocals.streaming_ai
    /\ subagent_stack = InitLocals.subagent_stack
    /\ pc = "streaming"
    /\ out = <<>>
    /\ consumed = <<>>
    /\ reqs = <<>>
    /\ norm = Idle
    /\ client = Idle
    /\ owui = Idle

\* the loop takes the next event from astream_events and runs its body
Consume ==
    /\ pc = "streaming"
    /\ Len(consumed) < MaxEvents
    /\ \E e \in Events :
         LET r == HandleEvent(Locals, e, show_tool_details)
         IN  /\ consumed' = Append(consumed, e)
             /\ SetLocals(r.locals)
             /\ out' = out \o r.frames
             /\ pc' = IF r.raised THEN "raised" ELSE "streaming"
    /\ UNCHANGED <<show_tool_details, reqs, norm, client, owui>>

\* astream_events is exhausted: the code after the loop runs
UpstreamExhausted ==
    /\ pc = "streaming"
    /\ out' = out \o Finalize(Locals)
    /\ pc' = "closed"
    /\ UNCHANGED <<show_tool_details, current_ai_content, tool_info,
                   collapse_open, streaming_ai, subagent_stack, consumed,
                   reqs, norm, client, owui>>

\* astream_events raises: no handler encloses the loop, the exception
\* leaves generate_stream
UpstreamRaises ==
    /\ pc = "streaming"
    /\ pc' = "raised"
    /\ UNCHANGED <<show_tool_details, current_ai_content, tool_info,
                   collapse_open, streaming_ai, subagent_stack, out,
                   consumed, reqs, norm, client, owui>>

Next ==
    \/ Consume
    \/ UpstreamExhausted
    \/ UpstreamRaises

Spec ==
    Init /\ [][Next]_vars

(***************************************************************************)
(* The typed events of routes/utils.py and their consumer, Pipe.pipe of    *)
(* openwebui/deep_agent_pipe.py.  A frame is the JSON object the server    *)
(* serialises with json.dumps and the pipe reads back with json.loads.     *)
(***************************************************************************)
EventTypes ==
    {"status", "tool_start", "tool_end", "token", "agent_start",
     "agent_end", "done"}

\* emit_event(event_type, data)
emit_event(event_type, data) ==
    [type |-> event_type, data |-> data]

\* emit_tool_end(tool_id, name, result, agent_depth)
emit_tool_end(tool_id, name, result, agent_depth) ==
    emit_event("tool_end", [tool_id |-> tool_id, name |-> name,
                            result |-> result, agent_depth |-> agent_depth])

\* emit_token(content, agent_depth)
emit_token(content, agent_depth) ==
    emit_event("token", [content |-> content, agent_depth |-> agent_depth])

\* emit_agent_start(agent_id, name, depth)
emit_agent_start(agent_id, name, depth) ==
    emit_event("agent_start", [agent_id |-> agent_id, name |-> name,
                               depth |-> depth])

\* emit_agent_end(agent_id, depth)
emit_agent_end(agent_id, depth) ==
    emit_event("agent_end", [agent_id |-> agent_id, depth |-> depth])

\* emit_done(): emit_event("done") leaves the data key out
emit_done ==
    [type |-> "done"]

\* the keys of the data payload each emitter gives its event type
DataKeys(event_type) ==
    CASE event_type = "status" -> {"description", "agent_depth"}
      [] event_type = "tool_start" -> {"tool_id", "name", "agent_depth"}
      [] event_type = "tool_end" ->
           {"tool_id", "name", "result", "agent_depth"}
      [] event_type = "token" -> {"content", "agent_depth"}
      [] event_type = "agent_start" -> {"agent_id", "name", "depth"}
      [] event_type = "agent_end" -> {"agent_id", "depth"}
      [] event_type = "done" -> {}

\* event.get("type") in Pipe.pipe
PipeEventType(frame) ==
    IF "type" \in DOMAIN frame THEN frame.type ELSE None

\* what Pipe.pipe yields to the chat for one frame: the token branch
PipeYield(frame) ==
    IF PipeEventType(frame) = "token"
    THEN IF "data" \in DOMAIN frame
         THEN IF "agent_depth" \in DOMAIN frame.data
                 /\ frame.data.agent_depth # 0
              THEN <<>>
              ELSE IF "content" \in DOMAIN frame.data
                   THEN <<frame.data.content>> ELSE <<<<>>>>
         ELSE <<<<>>>>
    ELSE <<>>

RECURSIVE PipeChat(_)
\* everything Pipe.pipe yields to the chat for a sequence of frames
PipeChat(frames) ==
    IF frames = <<>> THEN <<>>
    ELSE PipeYield(Head(frames)) \o PipeChat(Tail(frames))

\* the number of times Pipe.pipe calls _handle_done
PipeDoneCalls(frames) ==
    Cardinality({i \in 1..Len(frames) : PipeEventType(frames[i]) = "done"})

(***************************************************************************)
(* Vocabulary of the properties.                                           *)
(***************************************************************************)
Last(seq) ==
    seq[Len(seq)]

RECURSIVE RunLocals(_, _, _)
\* the locals of a call after it consumed evs, starting from locals l
RunLocals(l, evs, show) ==
    IF evs = <<>> THEN l
    ELSE LET r == HandleEvent(l, Head(evs), show)
         IN  IF r.raised THEN l ELSE RunLocals(r.locals, Tail(evs), show)

\* the locals the call had when it took its i-th event
LocalsBefore(i) ==
    RunLocals(InitLocals, SubSeq(consumed, 1, i - 1), show_tool_details)

\* this step is one pass of the loop body
ConsumeStep ==
    pc = "streaming" /\ Len(consumed') = Len(consumed) + 1

\* the frames this step yielded
NewFrames ==
    SubSeq(out', Len(out) + 1, Len(out'))

LocalsUnchanged ==
    UNCHANGED <<current_ai_content, tool_info, collapse_open, streaming_ai,
                subagent_stack>>

KnownKinds ==
    {"on_chat_model_stream", "on_tool_start", "on_tool_end"}

\* an event that lacks a key the branch of its kind reads, or a start event
\* without run identifier
Malformed(e) ==
    \/ ~e.has_event
    \/ /\ e.has_event
       /\ \/ e.event = "on_chat_model_stream" /\ (~e.has_data \/ ~e.has_chunk)
          \/ e.event = "on_tool_end" /\ (~e.has_data \/ ~e.has_output)
          \/ e.event = "on_tool_start" /\ e.run_id = None

DoneCount ==
    Cardinality({i \in 1..Len(out) : out[i] = DoneFrame})

(***************************************************************************)
(* C1: on every way generate_stream ends, also when the event source       *)
(* raises, the output holds exactly one done frame and it is the last      *)
(* frame.                                                                  *)
(***************************************************************************)
C1_ExactlyOneDoneLast ==
    (pc \in {"closed", "raised"}
       /\ \A i \in 1..Len(consumed) : ~Malformed(consumed[i])) =>
        /\ out # <<>>
        /\ Last(out) = DoneFrame
        /\ DoneCount = 1

(***************************************************************************)
(* C5: an on_tool_end event whose run identifier has no record in          *)
(* tool_info yields no frame and changes no local; the loop goes on.       *)
(***************************************************************************)
C5_UnknownEndIgnored ==
    [][ConsumeStep =>
          LET e == Last(consumed')
          IN  (e.has_event /\ e.event = "on_tool_end"
                 /\ e.run_id \notin DOMAIN tool_info)
                => (out' = out /\ LocalsUnchanged /\ pc' = "streaming")]_vars

\* an unknown end was consumed and a later event was translated after it
C5_Witness ==
    /\ pc = "streaming"
    /\ \E i \in 1..Len(consumed) :
         /\ consumed[i].has_event
         /\ consumed[i].event = "on_tool_end"
         /\ consumed[i].run_id \notin DOMAIN LocalsBefore(i).tool_info
         /\ \E j \in (i + 1)..Len(consumed) :
              /\ consumed[j].event = "on_tool_start"
              /\ consumed[j].run_id \in DOMAIN tool_info

(***************************************************************************)
(* C9: an event of a kind other than model-token, invocation-start and     *)
(* invocation-end yields no frame and changes no local; the loop goes on   *)
(* and the output of a call that returns ends with done.                   *)
(***************************************************************************)
C9_OtherKindsIgnored ==
    [][/\ ConsumeStep =>
            LET e == Last(consumed')
            IN  (e.has_event /\ e.event \notin KnownKinds)
                  => (out' = out /\ LocalsUnchanged /\ pc' = "streaming")
       /\ (pc = "streaming" /\ pc' = "closed") =>
            (out' # <<>> /\ Last(out') = DoneFrame)]_vars

\* an event of another kind was consumed, a later token was translated and
\* the call returned
C9_Witness ==
    /\ pc = "closed"
    /\ show_tool_details
    /\ Last(out) = DoneFrame
    /\ \E i \in 1..Len(consumed) :
         /\ consumed[i].has_event
         /\ consumed[i].event \notin KnownKinds
         /\ consumed[i].run_id \in DOMAIN LocalsBefore(i).tool_info
         /\ \E j \in (i + 1)..Len(consumed) :
              /\ consumed[j].event = "on_chat_model_stream"
              /\ \E k \in 1..Len(out) : out[k] = ContentFrame(<<"a">>)

(***************************************************************************)
(* C10: an event of malformed shape (no kind; a model-token or end event   *)
(* without its data, chunk or output; a start event without run            *)
(* identifier) is ignored and does not abort the stream.                   *)
(***************************************************************************)
C10_MalformedIgnored ==
    [][ConsumeStep =>
          (Malformed(Last(consumed'))
             => (pc' = "streaming" /\ out' = out /\ LocalsUnchanged))]_vars

(***************************************************************************)
(* C6: with show_tool_details, a model-token event with non-empty text     *)
(* yields, in its own pass, exactly one frame carrying exactly that text,  *)
(* as the last frame of the pass and after all earlier frames; a token     *)
(* event with empty text yields no frame.                                  *)
(***************************************************************************)
C6_TokensPassThrough ==
    [][(ConsumeStep /\ show_tool_details) =>
          LET e == Last(consumed')
          IN  (e.has_event /\ e.event = "on_chat_model_stream"
                 /\ e.has_data /\ e.has_chunk) =>
                LET text == extract_text_content(e.content)
                IN  /\ SubSeq(out', 1, Len(out)) = out
                    /\ IF text = <<>> THEN out' = out
                       ELSE /\ NewFrames # <<>>
                            /\ Last(NewFrames) = ContentFrame(text)
                            /\ Cardinality({i \in 1..Len(NewFrames) :
                                   NewFrames[i] = ContentFrame(text)}) = 1]_vars

\* three tokens arrived, "a", an empty one and "bc" as a block list; the
\* frames of "a" and "bc" are in the output in this order and the empty
\* token left no frame
C6_Witness ==
    /\ show_tool_details
    /\ pc = "streaming"
    /\ Len(consumed) = 3
    /\ consumed[1] = TokenEvent(JStr(<<"a">>))
    /\ consumed[2] = TokenEvent(JStr(<<>>))
    /\ consumed[3].content.k = "arr"
    /\ out = <<ContentFrame(DetailsOpen), ContentFrame(AIPrefix),
               ContentFrame(<<"a">>), ContentFrame(<<"b", "c">>)>>

(***************************************************************************)
(* C7: the delegation stack and the delegations the events say are active. *)
(***************************************************************************)
IsStart(e) ==
    e.has_event /\ e.event = "on_tool_start"

IsTaskStart(e) ==
    IsStart(e) /\ e.has_name /\ e.name = TaskName

IsEnd(e) ==
    e.has_event /\ e.event = "on_tool_end"

RECURSIVE Without(_, _)
Without(seq, x) ==
    IF seq = <<>> THEN <<>>
    ELSE IF Head(seq) = x THEN Without(Tail(seq), x)
    ELSE <<Head(seq)>> \o Without(Tail(seq), x)

RECURSIVE ActiveDelegations(_)
\* the run identifiers of the delegations started and not ended in evs, in
\* start order
ActiveDelegations(evs) ==
    IF evs = <<>> THEN <<>>
    ELSE LET before == ActiveDelegations(SubSeq(evs, 1, Len(evs) - 1))
             e == Last(evs)
         IN  IF IsTaskStart(e) THEN Append(before, e.run_id)
             ELSE IF IsEnd(e) THEN Without(before, e.run_id)
             ELSE before

\* run identifiers are unique: every start has one, no two starts and no two
\* ends share one
Matched(evs) ==
    \A i, j \in 1..Len(evs) :
        /\ IsStart(evs[i]) => evs[i].run_id # None
        /\ i < j =>
          /\ (IsStart(evs[i]) /\ IsStart(evs[j]))
                => evs[i].run_id # evs[j].run_id
          /\ (IsEnd(evs[i]) /\ IsEnd(evs[j]))
                => evs[i].run_id # evs[j].run_id

\* every delegation ends while it is the innermost active one
ClosesLIFO(evs) ==
    \A j \in 1..Len(evs) :
        LET active == ActiveDelegations(SubSeq(evs, 1, j - 1))
        IN  (IsEnd(evs[j])
               /\ \E k \in 1..Len(active) : active[k] = evs[j].run_id)
              => Last(active) = evs[j].run_id

\* C7 as claimed: whatever the order in which delegations end, the stack
\* holds exactly the delegations started and not ended, in start order.
C7_StackAnyOrder ==
    (pc # "raised" /\ Matched(consumed))
        => subagent_stack = ActiveDelegations(consumed)

\* C7 amended: when delegations end in LIFO order, the stack holds exactly
\* the delegations started and not ended, in start order.
C7_StackLIFO ==
    (pc # "raised" /\ Matched(consumed) /\ ClosesLIFO(consumed))
        => subagent_stack = ActiveDelegations(consumed)

\* two nested delegations started and ended innermost first: the stack is
\* empty again
C7_Witness ==
    /\ pc = "streaming"
    /\ Len(consumed) = 4
    /\ Matched(consumed) /\ ClosesLIFO(consumed)
    /\ IsTaskStart(consumed[1]) /\ IsTaskStart(consumed[2])
    /\ IsEnd(consumed[3]) /\ consumed[3].run_id = consumed[2].run_id
    /\ IsEnd(consumed[4]) /\ consumed[4].run_id = consumed[1].run_id
    /\ subagent_stack = <<>>

(***************************************************************************)
(* C2: a delegation ("task") yields agent_start when it starts; when it    *)
(* ends as the innermost one its pass yields exactly agent_end and then    *)
(* tool_end, both for its run identifier, the tool_end carrying the        *)
(* normalized output.                                                      *)
(***************************************************************************)
C2_DelegationPairing ==
    [][(ConsumeStep /\ Matched(consumed') /\ ClosesLIFO(consumed')) =>
          LET e == Last(consumed')
              active == ActiveDelegations(consumed)
          IN  /\ IsTaskStart(e) =>
                   \E k \in 1..Len(NewFrames) :
                       /\ PipeEventType(NewFrames[k]) = "agent_start"
                       /\ NewFrames[k].data.agent_id = e.run_id
              /\ (IsEnd(e) /\ e.has_data /\ active # <<>>
                    /\ Last(active) = e.run_id) =>
                   \E d1, d2 \in 0..MaxEvents :
                       NewFrames =
                         <<emit_agent_end(e.run_id, d1),
                           emit_tool_end(e.run_id, TaskName,
                                         clean_tool_result(OutputStr(e)),
                                         d2)>>]_vars

(***************************************************************************)
(* C3: on well-formed event sequences every frame a pass yields carries a  *)
(* depth that is the length of the delegation stack (before the push for a *)
(* start, inside the delegation for tokens and tools) and is not negative. *)
(***************************************************************************)
FrameDepths(frame) ==
    IF "data" \in DOMAIN frame
    THEN (IF "agent_depth" \in DOMAIN frame.data
          THEN {frame.data.agent_depth} ELSE {})
           \cup (IF "depth" \in DOMAIN frame.data
                 THEN {frame.data.depth} ELSE {})
    ELSE {}

C3_DepthIsStackLength ==
    [][(ConsumeStep /\ Matched(consumed') /\ ClosesLIFO(consumed')) =>
          \A k \in 1..Len(NewFrames) :
              \E d \in FrameDepths(NewFrames[k]) :
                  /\ d >= 0
                  /\ \/ d = Len(subagent_stack)
                     \/ IsEnd(Last(consumed')) /\ d = Len(subagent_stack')]_vars

(***************************************************************************)
(* C4: every frame is a typed event {type, data} of the closed set with    *)
(* the payload of its type, so that Pipe.pipe yields to the chat the text  *)
(* of every token produced at depth 0 and handles the done frame.          *)
(***************************************************************************)
WellTyped(frame) ==
    /\ "type" \in DOMAIN frame
    /\ frame.type \in EventTypes
    /\ IF DataKeys(frame.type) = {} THEN DOMAIN frame = {"type"}
       ELSE /\ DOMAIN frame = {"type", "data"}
            /\ DOMAIN frame.data = DataKeys(frame.type)

RECURSIVE Depth0Tokens(_)
\* the texts of the first n consumed events that are model tokens with
\* non-empty text arriving while no delegation is open
Depth0Tokens(n) ==
    IF n = 0 THEN <<>>
    ELSE LET e == consumed[n]
             text == IF e.has_event /\ e.event = "on_chat_model_stream"
                        /\ e.has_data /\ e.has_chunk
                     THEN extract_text_content(e.content) ELSE <<>>
         IN  Depth0Tokens(n - 1)
               \o (IF text # <<>> /\ LocalsBefore(n).subagent_stack = <<>>
                   THEN <<text>> ELSE <<>>)

C4_TypedFramesReachChat ==
    /\ \A i \in 1..Len(out) : WellTyped(out[i])
    /\ pc = "closed" =>
         /\ PipeChat(out) = Depth0Tokens(Len(consumed))
         /\ PipeDoneCalls(out) = 1

(***************************************************************************)
(* Two concurrent requests: two generate_stream calls, each a record of    *)
(* its parameter, locals, position, output and consumed events.            *)
(***************************************************************************)
ConcEvents ==
    { TokenEvent(JStr(<<"a">>)),
      StartEvent("r1", TaskName),
      StartEvent("r2", LsName),
      EndEvent("r1", JStr(<<"o", "k">>)),
      EndEvent("r2", JStr(<<"o", "k">>)),
      [Event("", "r1") EXCEPT !.has_event = FALSE] }

\* the locals of every call are one shared set (module-level state)
CallLocalsShared(rs, i) ==
    rs[1].locals

\* the locals of call i: created by the call itself
CallLocals(rs, i) ==
    rs[i].locals

InitConc ==
    /\ show_tool_details = TRUE
    /\ current_ai_content = InitLocals.current_ai_content
    /\ tool_info = InitLocals.tool_info
    /\ collapse_open = InitLocals.collapse_open
    /\ streaming_ai = InitLocals.streaming_ai
    /\ subagent_stack = InitLocals.subagent_stack
    /\ pc = "streaming"
    /\ out = <<>>
    /\ consumed = <<>>
    /\ reqs \in [1..2 -> {InitCall(TRUE), InitCall(FALSE)}]
    /\ norm = Idle
    /\ client = Idle
    /\ owui = Idle

SingleUnchanged ==
    UNCHANGED <<show_tool_details, current_ai_content, tool_info,
                collapse_open, streaming_ai, subagent_stack, pc, out,
                consumed, norm, client, owui>>

ConcConsume(i) ==
    /\ reqs[i].pc = "streaming"
    /\ Len(reqs[i].consumed) < MaxConcEvents
    /\ \E e \in ConcEvents :
         LET r == HandleEvent(CallLocals(reqs, i), e,
                              reqs[i].show_tool_details)
         IN  reqs' = [reqs EXCEPT
                        ![i].consumed = Append(@, e),
                        ![i].locals = r.locals,
                        ![i].out = @ \o r.frames,
                        ![i].pc = IF r.raised THEN "raised" ELSE "streaming"]
    /\ SingleUnchanged

ConcExhausted(i) ==
    /\ reqs[i].pc = "streaming"
    /\ reqs' = [reqs EXCEPT ![i].out = @ \o Finalize(CallLocals(reqs, i)),
                            ![i].pc = "closed"]
    /\ SingleUnchanged

ConcRaises(i) ==
    /\ reqs[i].pc = "streaming"
    /\ reqs' = [reqs EXCEPT ![i].pc = "raised"]
    /\ SingleUnchanged

NextConc ==
    \E i \in 1..2 :
        \/ ConcConsume(i)
        \/ ConcExhausted(i)
        \/ ConcRaises(i)

SpecConc ==
    InitConc /\ [][NextConc]_vars

RECURSIVE RunFrames(_, _, _)
\* the frames the loop of a call yields on evs when it runs alone
RunFrames(l, evs, show) ==
    IF evs = <<>> THEN <<>>
    ELSE LET r == HandleEvent(l, Head(evs), show)
         IN  r.frames \o (IF r.raised THEN <<>>
                          ELSE RunFrames(r.locals, Tail(evs), show))

\* the whole output of a call that ran alone on the events of call c and
\* got as far as c
AloneOut(c) ==
    RunFrames(InitLocals, c.consumed, c.show_tool_details)
      \o (IF c.pc = "closed"
          THEN Finalize(RunLocals(InitLocals, c.consumed,
                                  c.show_tool_details))
          ELSE <<>>)

(***************************************************************************)
(* C8: in every interleaving of two requests, each request's output is the *)
(* output it produces when it runs alone on the same events.               *)
(***************************************************************************)
C8_Isolation ==
    \A i \in DOMAIN reqs : reqs[i].out = AloneOut(reqs[i])

\* both requests use run identifier r1 and both returned: the first opened
\* a delegation with it and streamed a token inside it, the second got an
\* end for it without a start and ignored it
C8_Witness ==
    /\ DOMAIN reqs = 1..2
    /\ reqs[1].pc = "closed" /\ reqs[2].pc = "closed"
    /\ reqs[1].show_tool_details /\ reqs[2].show_tool_details
    /\ reqs[1].consumed = <<StartEvent("r1", TaskName),
                            TokenEvent(JStr(<<"a">>))>>
    /\ reqs[2].consumed = <<TokenEvent(JStr(<<"a">>)),
                            EndEvent("r1", JStr(<<"o", "k">>))>>
    /\ reqs[1].out = <<ContentFrame(DetailsOpen),
                       ContentFrame(SubAgentPrefix), ContentFrame(<<"a">>),
                       ContentFrame(BlankLine), ContentFrame(DetailsClose),
                       ContentFrame(<<"a">>), DoneFrame>>
    /\ reqs[2].out = <<ContentFrame(DetailsOpen),
                       ContentFrame(AIPrefix), ContentFrame(<<"a">>),
                       ContentFrame(BlankLine), ContentFrame(DetailsClose),
                       ContentFrame(<<"a">>), DoneFrame>>

(***************************************************************************)
(* Vocabulary of C11 and C12: the text of the model's messages.            *)
(***************************************************************************)
\* the text of a model-token event, empty for any other event
TokenText(e) ==
    IF e.has_event /\ e.event = "on_chat_model_stream" /\ e.has_data
          /\ e.has_chunk
    THEN extract_text_content(e.content) ELSE <<>>

\* the position of the last invocation start among the consumed events, 0 if
\* there is none
LastStart ==
    LET starts == {i \in 1..Len(consumed) : IsStart(consumed[i])}
    IN  IF starts = {} THEN 0 ELSE CHOOSE m \in starts : \A n \in starts : n <= m

\* the token texts of the consumed events after position j, in order
TextAfter(j) ==
    Concat([k \in 1..(Len(consumed) - j) |-> TokenText(consumed[j + k])])

\* the consumed events are well formed: every event has the keys its branch
\* reads, run identifiers are unique, delegations end innermost first and
\* every delegation has ended
Complete ==
    /\ \A i \in 1..Len(consumed) : ~Malformed(consumed[i])
    /\ Matched(consumed)
    /\ ClosesLIFO(consumed)
    /\ ActiveDelegations(consumed) = <<>>

\* no token after position j arrived while a delegation was open
MainAgentAfter(j) ==
    \A i \in (j + 1)..Len(consumed) :
        TokenText(consumed[i]) # <<>>
            => LocalsBefore(i).subagent_stack = <<>>

(***************************************************************************)
(* C11: with show_tool_details false, the output of a call that returns    *)
(* after a well-formed event sequence with every delegation ended is       *)
(* at most one content frame followed by done, and the content frame holds *)
(* the text of the final message only: the tokens received after the last  *)
(* invocation start, none of them from inside a delegation.                *)
(***************************************************************************)
C11_OnlyFinalAnswer ==
    (pc = "closed" /\ ~show_tool_details /\ Complete) =>
        \/ out = <<DoneFrame>>
        \/ /\ out = <<ContentFrame(TextAfter(LastStart)), DoneFrame>>
           /\ MainAgentAfter(LastStart)

(***************************************************************************)
(* C12: with show_tool_details true and a well-formed event sequence with  *)
(* every delegation ended, the frames between the frame that               *)
(* closes the details block and done are the duplicated final text: the    *)
(* concatenated token frames that follow the last prefix frame inside the  *)
(* block, emitted only if that text is not white space, and made of tokens *)
(* of the main agent only.                                                 *)
(***************************************************************************)
\* the position of the frame that closes the details block, 0 if there is
\* none
CloseIndex ==
    LET cs == {i \in 1..Len(out) : out[i] = ContentFrame(DetailsClose)}
    IN  IF cs = {} THEN 0 ELSE MinOf(cs)

\* the position of the last prefix frame inside the block, 0 if there is
\* none
LastPrefixIndex ==
    LET ps == {i \in 1..(CloseIndex - 1) :
                  out[i] \in {ContentFrame(AIPrefix),
                              ContentFrame(SubAgentPrefix)}}
    IN  IF ps = {} THEN 0 ELSE CHOOSE m \in ps : \A n \in ps : n <= m

\* the text of the last AI segment streamed inside the block: the token
\* frames from the last prefix frame to the blank line that ends the segment
LastSegmentText ==
    IF LastPrefixIndex = 0 THEN <<>>
    ELSE LET stop == MinOf({i \in (LastPrefixIndex + 1)..CloseIndex :
                               out[i] \in {ContentFrame(BlankLine),
                                           ContentFrame(DetailsClose)}})
         IN  Concat([k \in 1..(stop - LastPrefixIndex - 1) |->
                        out[LastPrefixIndex + k].content])

\* the frames between the closing frame and done
Duplicate ==
    SubSeq(out, CloseIndex + 1, Len(out) - 1)

C12_FinalDuplicate ==
    (pc = "closed" /\ show_tool_details /\ Complete) =>
        IF CloseIndex = 0 THEN out = <<DoneFrame>>
        ELSE Duplicate # <<>> =>
                 /\ Duplicate = <<ContentFrame(LastSegmentText)>>
                 /\ Strip(LastSegmentText) # <<>>
                 /\ \E j \in 0..Len(consumed) :
                        /\ LastSegmentText = TextAfter(j)
                        /\ MainAgentAfter(j)

(***************************************************************************)
(* One tool result: the on_tool_end pass of generate_stream on a tool      *)
(* output drawn from a bounded set, and clean_tool_result applied to the   *)
(* output text once and twice.                                             *)
(***************************************************************************)
\* how many times a tool text is wrapped into another tool text
NormDepth ==
    2

\* a text longer than the preview
LongText ==
    [i \in 1..(PreviewLen + 1) |-> IF i % 2 = 1 THEN "x" ELSE "y"]

\* str(Command(update={'messages': [ToolMessage(content=text, ...)]}))
AsCommand(text) ==
    <<"C", "o", "m", "m", "a", "n", "d", "(", "u", "p", "d", "a", "t",
      "e", "=", "{", "'", "m", "e", "s", "s", "a", "g", "e", "s", "'",
      ":", " ", "[", "T", "o", "o", "l", "M", "e", "s", "s", "a", "g",
      "e", "(", "c", "o", "n", "t", "e", "n", "t", "=">>
      \o ReprStr(text)
      \o <<",", " ", "n", "a", "m", "e", "=", "'", "l", "s", "'", ")", "]",
         "}", ")">>

\* json.dumps({"content": text})
AsContent(text) ==
    JsonDumps(JObj(<<ContentKey>>, <<JStr(text)>>))

\* json.dumps({"message": text})
AsMessage(text) ==
    JsonDumps(JObj(<<MessageKey>>, <<JStr(text)>>))

\* texts a tool returns: empty and blank text, plain text, JSON text of
\* every shape the JSON branch tells apart, command text with and without
\* the marker, with and without quotes
BaseTexts ==
    { <<>>, <<" ", "\n">>, <<"o", "k">>, <<"4", "2">>, LongText,
      <<"{">>, <<"[", "1", "]">>,
      <<"{", "\"", "a", "\"", ":", " ", "1", "}">>,
      <<"{", "\"", "m", "e", "s", "s", "a", "g", "e", "\"", ":", " ", "\"",
      "m", "\"", ",", " ", "\"", "c", "o", "n", "t", "e", "n", "t", "\"",
      ":", " ", "\"", "c", "\"", "}">>,
      <<"{", "\"", "c", "o", "n", "t", "e", "n", "t", "\"", ":", " ", "[",
      "1", ",", " ", "n", "u", "l", "l", "]", "}">>,
      <<"C", "o", "m", "m", "a", "n", "d", "(", "g", "o", "t", "o", "=",
      "'", "x", "'", ")">>,
      <<"C", "o", "m", "m", "a", "n", "d", "(", "g", "o", "t", "o", "=",
      "'", "x", "'", ",", " ", "u", "p", "d", "a", "t", "e", "=", "T",
      "o", "o", "l", "M", "e", "s", "s", "a", "g", "e", "(", "c", "o",
      "n", "t", "e", "n", "t", "=", "1", ")", ")">>,
      <<"C", "o", "m", "m", "a", "n", "d", "(", "u", "p", "d", "a", "t",
      "e", "=", "{", "'", "m", "e", "s", "s", "a", "g", "e", "s", "'",
      ":", " ", "[", "T", "o", "o", "l", "M", "e", "s", "s", "a", "g",
      "e", "(", "c", "o", "n", "t", "e", "n", "t", "=", "'", "d", "o",
      "n", "e", "'", ",", " ", ".", ".", ".", ")", "]", "}", ")">> }

RECURSIVE ToolTexts(_)
\* the base texts wrapped up to n times
ToolTexts(n) ==
    IF n = 0 THEN BaseTexts
    ELSE ToolTexts(n - 1)
           \cup {AsContent(x) : x \in ToolTexts(n - 1)}
           \cup {AsMessage(x) : x \in ToolTexts(n - 1)}
           \cup {AsCommand(x) : x \in ToolTexts(n - 1)}

\* tool outputs that are no str: None, a dict, a list, a number and an
\* object json cannot encode (a ToolMessage)
OtherOutputs ==
    { PyNone,
      JObj(<<ContentKey>>, <<JStr(<<"o", "k">>)>>),
      JArr(<<JStr(<<"o", "k">>), PyNone>>),
      JInt(<<"7">>),
      PyObj(<<"c", "o", "n", "t", "e", "n", "t", "=", "'", "o", "k", "'",
            " ", "n", "a", "m", "e", "=", "'", "l", "s", "'">>) }

\* the invocation-end events of one tool, "r2"
NormEndEvents ==
    {EndEvent("r2", JStr(x)) : x \in ToolTexts(NormDepth)}
      \cup {EndEvent("r2", v) : v \in OtherOutputs}
      \cup {[Event("on_tool_end", "r2") EXCEPT !.has_data = TRUE]}

\* the locals of a call that consumed the start of tool "r2"
StartedLocals ==
    HandleEvent(InitLocals, StartEvent("r2", LsName), TRUE).locals

InitNorm ==
    /\ show_tool_details = TRUE
    /\ current_ai_content = InitLocals.current_ai_content
    /\ tool_info = InitLocals.tool_info
    /\ collapse_open = InitLocals.collapse_open
    /\ streaming_ai = InitLocals.streaming_ai
    /\ subagent_stack = InitLocals.subagent_stack
    /\ pc = "streaming"
    /\ out = <<>>
    /\ consumed = <<>>
    /\ reqs = <<>>
    /\ client = Idle
    /\ owui = Idle
    /\ \E e \in NormEndEvents :
         norm = [pc |-> "started", event |-> e, frames |-> <<>>,
                 preview |-> <<>>, again |-> <<>>]

NormUnchanged ==
    UNCHANGED <<show_tool_details, current_ai_content, tool_info,
                collapse_open, streaming_ai, subagent_stack, pc, out,
                consumed, reqs, client, owui>>

\* the loop body on the end event of the tool
NormToolEnd ==
    /\ norm.pc = "started"
    /\ norm' = [norm EXCEPT
                  !.pc = IF HandleEvent(StartedLocals, norm.event, TRUE).raised
                         THEN "raised" ELSE "ended",
                  !.frames = HandleEvent(StartedLocals, norm.event, TRUE).frames]
    /\ NormUnchanged

\* clean_tool_result(output_str)
NormClean ==
    /\ norm.pc = "ended"
    /\ norm' = [norm EXCEPT !.pc = "cleaned",
                            !.preview = clean_tool_result(OutputStr(norm.event))]
    /\ NormUnchanged

\* clean_tool_result applied to its own result
NormAgain ==
    /\ norm.pc = "cleaned"
    /\ norm' = [norm EXCEPT !.pc = "twice",
                            !.again = clean_tool_result(norm.preview)]
    /\ NormUnchanged

NextNorm ==
    \/ NormToolEnd
    \/ NormClean
    \/ NormAgain

SpecNorm ==
    InitNorm /\ [][NextNorm]_vars

(***************************************************************************)
(* Vocabulary of C13 to C16.                                               *)
(***************************************************************************)
\* the text clean_tool_result is applied to
NormInput ==
    OutputStr(norm.event)

Blank(x) ==
    \A i \in 1..Len(x) : IsSpace(x[i])

Bracketed(x) ==
    x # <<>> /\ x[1] \in {"{", "["}

\* x parses to an object that has key
ParsesWith(x, key) ==
    JsonLoads(x).ok /\ JsonLoads(x).v.k = "obj" /\ DictHas(JsonLoads(x).v, key)

\* the string form of the value of key in the object x parses to
ValueText(x, key) ==
    PyStr(DictGet(JsonLoads(x).v, key))

\* the position after the first single quote that follows the marker, 0 if
\* the marker is absent or no single quote follows it
AfterOpeningQuote(x) ==
    IF Find(x, ToolMessageMarker, 0) = -1 THEN 0
    ELSE Find(x, <<"'">>, Find(x, ToolMessageMarker, 0)) + 1

\* the text between the first pair of single quotes after the marker, empty
\* if there is no such pair
QuotedAfterMarker(x) ==
    IF AfterOpeningQuote(x) = 0
          \/ Find(x, <<"'">>, AfterOpeningQuote(x)) = -1
    THEN <<>>
    ELSE Slice(x, AfterOpeningQuote(x), Find(x, <<"'">>, AfterOpeningQuote(x)))

\* the text before the first single quote of x, empty if x has none
BeforeFirstQuote(x) ==
    IF Find(x, <<"'">>, 0) = -1 THEN <<>>
    ELSE Slice(x, 0, Find(x, <<"'">>, 0))

OrCompleted(text) ==
    IF text = <<>> THEN Completed ELSE text

C14_FallbackCompleted ==
    (norm.pc = "cleaned" /\ Bracketed(NormInput)
       /\ ~ParsesWith(NormInput, ContentKey)
       /\ ~ParsesWith(NormInput, MessageKey))
        => norm.preview = Completed

(***************************************************************************)
(* C15: clean_tool_result is idempotent: applied to its own result it      *)
(* returns that result.                                                    *)
(***************************************************************************)
C15_Idempotent ==
    norm.pc = "twice" => norm.again = norm.preview

(***************************************************************************)
(* C16: for every tool output (a string, None, any other value, or no      *)
(* output key) the pass of the end event does not raise and yields one     *)
(* frame whose content is text: the label of the tool, the escaped         *)
(* preview and a blank line.                                               *)
(***************************************************************************)
IsText(x) ==
    /\ DOMAIN x = 1..Len(x)
    /\ \A i \in 1..Len(x) : x[i] \in STRING

MaxLines ==
    3

\* how many events a call of Pipe.pipe reads
MaxPipeEvents ==
    2

\* the largest agent_depth of a typed event
MaxDepth ==
    1

DataPrefix ==
    <<"d", "a", "t", "a", ":", " ">>

DoneKey ==
    <<"d", "o", "n", "e">>

\* the line EventSourceResponse sends for a frame of generate_stream:
\* "data: " and the JSON text json.dumps made of the frame
SseLine(frame) ==
    DataPrefix
      \o (IF "content" \in DOMAIN frame
          THEN JsonDumps(JObj(<<ContentKey>>, <<JStr(frame.content)>>))
          ELSE JsonDumps(JObj(<<DoneKey>>, <<PyTrue>>)))

\* the texts of the content frames the server sends
StreamTexts ==
    { <<"a">>, <<"b", " ">> }

\* the lines response.iter_lines() gives: content and done frames, the
\* empty line between events, a comment line, a data line that is no JSON,
\* a data line with done false and a data line whose JSON is no object
SseLines ==
    { SseLine(ContentFrame(text)) : text \in StreamTexts }
      \cup
    { SseLine(DoneFrame),
      <<>>,
      <<":", " ", "p", "i", "n", "g">>,
      DataPrefix \o <<"{">>,
      DataPrefix \o JsonDumps(JObj(<<DoneKey>>, <<PyFalse>>)),
      DataPrefix \o <<"5">> }

\* str(e) of the requests.exceptions.RequestException raised
RequestErrors ==
    { <<"C", "o", "n", "n", "e", "c", "t", "i", "o", "n", " ", "r", "e", "f",
      "u", "s", "e", "d">>,
      <<"R", "e", "a", "d", " ", "t", "i", "m", "e", "d", " ", "o", "u", "t",
      ".">> }

\* f"Error connecting to Deep Agent API: {str(e)}"
ApiErrorText(e) ==
    <<"E", "r", "r", "o", "r", " ", "c", "o", "n", "n", "e", "c", "t", "i",
      "n", "g", " ", "t", "o", " ", "D", "e", "e", "p", " ", "A", "g", "e",
      "n", "t", " ", "A", "P", "I", ":", " ">>
      \o e

\* bool(v) of a Python value
Truthy(v) ==
    CASE v.k = "lit" -> v = PyTrue
      [] v.k \in {"str", "pyobj"} -> v.s # <<>>
      [] v.k = "int" -> v.s # <<"0">>
      [] v.k = "arr" -> v.items # <<>>
      [] v.k = "obj" -> v.keys # <<>>

\* what one pass of the for loop does: the values it yields, whether it
\* breaks out of the loop, whether an exception leaves the generator
LineResult(yield, stop, raised) ==
    [yield |-> yield, stop |-> stop, raised |-> raised]

\* StreamData without the break on a done frame
StreamDataNoBreak(r) ==
    IF ~r.ok THEN LineResult(<<>>, FALSE, FALSE)
    ELSE IF r.v.k # "obj" THEN LineResult(<<>>, FALSE, TRUE)
    ELSE LineResult(IF DictHas(r.v, ContentKey)
                    THEN <<DictGet(r.v, ContentKey)>> ELSE <<>>,
                    FALSE, FALSE)

\* the try block of the loop body after json.loads returned r: a JSON value
\* that is no dict raises TypeError or AttributeError, which no except
\* clause of the generator catches
StreamData(r) ==
    IF ~r.ok THEN LineResult(<<>>, FALSE, FALSE)
    ELSE IF r.v.k # "obj" THEN LineResult(<<>>, FALSE, TRUE)
    ELSE LineResult(IF DictHas(r.v, ContentKey)
                    THEN <<DictGet(r.v, ContentKey)>> ELSE <<>>,
                    DictHas(r.v, DoneKey) /\ Truthy(DictGet(r.v, DoneKey)),
                    FALSE)

\* the body of the for loop of _stream_response on one line
StreamLine(line) ==
    IF line = <<>> THEN LineResult(<<>>, FALSE, FALSE)
    ELSE IF ~StartsWith(line, DataPrefix) THEN LineResult(<<>>, FALSE, FALSE)
    ELSE StreamData(JsonLoads(Slice(line, Len(DataPrefix), Len(line))))

InitStream ==
    [pc |-> "connecting", received |-> <<>>, yielded |-> <<>>,
     error |-> None]

(***************************************************************************)
(* Pipe.pipe of openwebui/deep_agent_pipe.py.                              *)
(***************************************************************************)
NoMessagesText ==
    <<"E", "r", "r", "o", "r", ":", " ", "N", "o", " ", "m", "e", "s", "s",
      "a", "g", "e", "s", " ", "p", "r", "o", "v", "i", "d", "e", "d", ".">>

\* f"Error: Backend returned {response.status_code}: {error_text.decode()}"
\* for status 500 and an empty body
BadStatusText ==
    <<"E", "r", "r", "o", "r", ":", " ", "B", "a", "c", "k", "e", "n", "d",
      " ", "r", "e", "t", "u", "r", "n", "e", "d", " ", "5", "0", "0", ":",
      " ">>

\* f"Error: Could not connect to Deep Agent backend at {DEEP_AGENT_URL}"
ConnectErrorText ==
    <<"E", "r", "r", "o", "r", ":", " ", "C", "o", "u", "l", "d", " ", "n",
      "o", "t", " ", "c", "o", "n", "n", "e", "c", "t", " ", "t", "o", " ",
      "D", "e", "e", "p", " ", "A", "g", "e", "n", "t", " ", "b", "a", "c",
      "k", "e", "n", "d", " ", "a", "t", " ", "h", "t", "t", "p", ":", "/",
      "/", "d", "e", "e", "p", "-", "a", "g", "e", "n", "t", "-", "a", "p",
      "i", ":", "8", "0", "0", "0">>

TimeoutText ==
    <<"E", "r", "r", "o", "r", ":", " ", "R", "e", "q", "u", "e", "s", "t",
      " ", "t", "i", "m", "e", "d", " ", "o", "u", "t", ".", " ", "T", "h",
      "e", " ", "a", "g", "e", "n", "t", " ", "m", "a", "y", " ", "s", "t",
      "i", "l", "l", " ", "b", "e", " ", "p", "r", "o", "c", "e", "s", "s",
      "i", "n", "g", ".">>

\* str(e) of an exception that is neither ConnectError nor TimeoutException
OtherErrors ==
    { <<"S", "e", "r", "v", "e", "r", " ", "d", "i", "s", "c", "o", "n", "n",
      "e", "c", "t", "e", "d">> }

\* str(e) of the AttributeError event.get raises when the JSON value is no
\* dict
NoGetError ==
    <<"'", "i", "n", "t", "'", " ", "o", "b", "j", "e", "c", "t", " ", "h",
      "a", "s", " ", "n", "o", " ", "a", "t", "t", "r", "i", "b", "u", "t",
      "e", " ", "'", "g", "e", "t", "'">>

\* f"Error: {str(e)}"
ErrorText(e) ==
    <<"E", "r", "r", "o", "r", ":", " ">> \o e

CompleteText ==
    <<"C", "o", "m", "p", "l", "e", "t", "e">>

ProcessingText ==
    <<"P", "r", "o", "c", "e", "s", "s", "i", "n", "g", ".", ".", ".">>

\* the nesting prefix of a status description, as the file spells it
DepthPrefix ==
    <<"U+E2", "U+2020", "U+B3", " ">>

\* the tool icon of a description, as the file spells it
ToolIcon ==
    <<"U+F0", "U+178", "U+201D", "U+A7", " ">>

\* the agent icon of a description, as the file spells it
AgentIcon ==
    <<"U+F0", "U+178", "U+A4", "U+2013", " ">>

\* the completion mark _handle_tool_end compares the result with, as the
\* file spells it
PipeCompleted ==
    <<"U+E2", "U+153", "U+201C", " ", "c", "o", "m", "p", "l", "e", "t",
      "e", "d">>

\* data.get(key, default)
Get(data, key, default) ==
    IF key \in DOMAIN data THEN data[key] ELSE default

\* text * n
Repeat(text, n) ==
    Concat([i \in 1..n |-> text])

\* the event _handle_status and its siblings send to the emitter
StatusEvent(description, done) ==
    [type |-> "status", data |-> [description |-> description, done |-> done]]

\* the citation _handle_tool_end sends to the emitter
SourceEvent(tool_id, tool_name, result) ==
    [type |-> "source",
     data |-> [source |-> [name |-> ToolIcon \o tool_name, id |-> tool_id],
               document |-> <<Slice(result, 0, 500)>>,
               metadata |-> <<[full_result |-> result,
                               tool_name |-> tool_name,
                               tool_id |-> tool_id]>>]]

\* _handle_status(data, event_emitter): the events sent to the emitter
handle_status(data, emitter) ==
    IF ~emitter THEN <<>>
    ELSE <<StatusEvent(
             (IF Get(data, "agent_depth", 0) > 0 THEN DepthPrefix ELSE <<>>)
               \o Get(data, "description", ProcessingText),
             FALSE)>>

\* _handle_tool_start(data, event_emitter)
handle_tool_start(data, emitter) ==
    IF ~emitter THEN <<>>
    ELSE <<StatusEvent(
             (IF Get(data, "agent_depth", 0) > 0 THEN DepthPrefix ELSE <<>>)
               \o ToolIcon \o <<"R", "u", "n", "n", "i", "n", "g", " ">>
               \o Get(data, "name", DefaultToolName) \o <<".", ".", ".">>,
             FALSE)>>

\* handle_tool_end without the test of agent_depth
handle_tool_end_any_depth(data, emitter, citations) ==
    IF ~emitter \/ ~citations THEN <<>>
    ELSE IF Get(data, "result", <<>>) = <<>>
            \/ Get(data, "result", <<>>) = PipeCompleted
         THEN <<>>
    ELSE <<SourceEvent(Get(data, "tool_id", <<>>),
                       Get(data, "name", DefaultToolName),
                       Get(data, "result", <<>>))>>

\* _handle_tool_end(data, event_emitter)
handle_tool_end(data, emitter, citations) ==
    IF ~emitter \/ ~citations THEN <<>>
    ELSE IF Get(data, "agent_depth", 0) > 0 THEN <<>>
    ELSE IF Get(data, "result", <<>>) = <<>>
            \/ Get(data, "result", <<>>) = PipeCompleted
         THEN <<>>
    ELSE <<SourceEvent(Get(data, "tool_id", <<>>),
                       Get(data, "name", DefaultToolName),
                       Get(data, "result", <<>>))>>

\* _handle_agent_start(data, event_emitter)
handle_agent_start(data, emitter, subagent_status) ==
    IF ~emitter \/ ~subagent_status THEN <<>>
    ELSE <<StatusEvent(
             Repeat(DepthPrefix, Get(data, "depth", 1))
               \o AgentIcon \o <<"S", "t", "a", "r", "t", "i", "n", "g", " ">>
               \o Get(data, "name", <<"s", "u", "b", "-", "a", "g", "e", "n",
                                      "t">>)
               \o <<".", ".", ".">>,
             FALSE)>>

\* _handle_agent_end(data, event_emitter)
handle_agent_end(data, emitter, subagent_status) ==
    IF ~emitter \/ ~subagent_status THEN <<>>
    ELSE <<StatusEvent(
             (IF Get(data, "depth", 1) > 1
              THEN Repeat(DepthPrefix, Get(data, "depth", 1) - 1) ELSE <<>>)
               \o <<"S", "u", "b", "-", "a", "g", "e", "n", "t", " ", "c", "o",
                    "m", "p", "l", "e", "t", "e", "d">>,
             TRUE)>>

\* _handle_done(event_emitter), and the block that ends Pipe.pipe
handle_done(emitter) ==
    IF ~emitter THEN <<>> ELSE <<StatusEvent(CompleteText, TRUE)>>

\* what the emitter gets for one event of type event_type with payload data
PipeEmit(event_type, data, emitter, citations, subagent_status) ==
    CASE event_type = "status" -> handle_status(data, emitter)
      [] event_type = "tool_start" -> handle_tool_start(data, emitter)
      [] event_type = "tool_end" -> handle_tool_end(data, emitter, citations)
      [] event_type = "agent_start" ->
           handle_agent_start(data, emitter, subagent_status)
      [] event_type = "agent_end" ->
           handle_agent_end(data, emitter, subagent_status)
      [] event_type = "done" -> handle_done(emitter)
      [] OTHER -> <<>>

\* emit_status(description, agent_depth)
emit_status(description, agent_depth) ==
    emit_event("status", [description |-> description,
                          agent_depth |-> agent_depth])

\* emit_tool_start(tool_id, name, agent_depth)
emit_tool_start(tool_id, name, agent_depth) ==
    emit_event("tool_start", [tool_id |-> tool_id, name |-> name,
                              agent_depth |-> agent_depth])

\* a line of the response that the loop skips (empty, no data line, no
\* JSON), and a data line whose JSON is no dict
SkippedLine ==
    [line |-> "skipped"]

NoDictLine ==
    [line |-> "no dict"]

\* what Pipe.pipe reads: the typed events of routes/utils.py at every
\* depth, a token without agent_depth, the two frames generate_stream
\* sends, and the lines above
PipeFrames ==
    { emit_token(<<"a">>, d) : d \in 0..MaxDepth }
      \cup { emit_tool_end("r2", LsName, <<"o", "k">>, d) : d \in 0..MaxDepth }
      \cup { emit_tool_start("r2", LsName, d) : d \in 0..MaxDepth }
      \cup { emit_status(<<"g", "o">>, d) : d \in 0..MaxDepth }
      \cup { emit_tool_end("r2", LsName, Completed, 0),
             emit_tool_end("r2", LsName, <<>>, 0),
             emit_agent_start("r1", TaskName, MaxDepth),
             emit_agent_end("r1", MaxDepth),
             emit_done,
             [type |-> "token", data |-> [content |-> <<"a">>]],
             ContentFrame(<<"a">>), DoneFrame,
             SkippedLine, NoDictLine }

InitPipe ==
    { [pc |-> "start", has_messages |-> m, emitter |-> e, citations |-> c,
       subagent_status |-> s, received |-> <<>>, chat |-> <<>>,
       emitted |-> <<>>, path |-> None] : m, e, c, s \in BOOLEAN }

InitClient ==
    /\ show_tool_details = TRUE
    /\ current_ai_content = InitLocals.current_ai_content
    /\ tool_info = InitLocals.tool_info
    /\ collapse_open = InitLocals.collapse_open
    /\ streaming_ai = InitLocals.streaming_ai
    /\ subagent_stack = InitLocals.subagent_stack
    /\ pc = "streaming"
    /\ out = <<>>
    /\ consumed = <<>>
    /\ reqs = <<>>
    /\ norm = Idle
    /\ \/ client = InitStream /\ owui = Idle
       \/ client = Idle /\ owui \in InitPipe

StreamUnchanged ==
    UNCHANGED <<show_tool_details, current_ai_content, tool_info,
                collapse_open, streaming_ai, subagent_stack, pc, out,
                consumed, reqs, norm, owui>>

PipeUnchanged ==
    UNCHANGED <<show_tool_details, current_ai_content, tool_info,
                collapse_open, streaming_ai, subagent_stack, pc, out,
                consumed, reqs, norm, client>>

\* requests.post or raise_for_status raises a RequestException (connection
\* refused, timeout, HTTP error): the except clause yields the message
StreamPostFails ==
    /\ client.pc = "connecting"
    /\ \E e \in RequestErrors :
         client' = [client EXCEPT !.pc = "ended", !.error = e,
                                  !.yielded = <<JStr(ApiErrorText(e))>>]
    /\ StreamUnchanged

\* the response arrived with a good status
StreamConnected ==
    /\ client.pc = "connecting"
    /\ client' = [client EXCEPT !.pc = "reading"]
    /\ StreamUnchanged

\* iter_lines gives the next line and the loop body runs on it
StreamRead ==
    /\ client.pc = "reading"
    /\ Len(client.received) < MaxLines
    /\ \E line \in SseLines :
         client' = [client EXCEPT
                      !.received = Append(@, line),
                      !.yielded = @ \o StreamLine(line).yield,
                      !.pc = IF StreamLine(line).raised THEN "raised"
                             ELSE IF StreamLine(line).stop THEN "ended"
                             ELSE "reading"]
    /\ StreamUnchanged

\* iter_lines raises a RequestException (the connection broke, a read
\* timed out)
StreamReadFails ==
    /\ client.pc = "reading"
    /\ \E e \in RequestErrors :
         client' = [client EXCEPT !.pc = "ended", !.error = e,
                                  !.yielded = @ \o <<JStr(ApiErrorText(e))>>]
    /\ StreamUnchanged

\* iter_lines is exhausted
StreamEnds ==
    /\ client.pc = "reading"
    /\ client' = [client EXCEPT !.pc = "ended"]
    /\ StreamUnchanged

\* `if not messages`: the message is yielded and pipe returns
PipeNoMessages ==
    /\ owui.pc = "start"
    /\ ~owui.has_messages
    /\ owui' = [owui EXCEPT !.pc = "returned", !.path = "no messages",
                            !.chat = @ \o <<NoMessagesText>>]
    /\ PipeUnchanged

\* PipeFailed without the block after the try
PipeFailedNoFinal(path, text) ==
    owui' = [owui EXCEPT !.pc = "returned", !.path = path,
                         !.chat = @ \o <<text>>]

\* an except clause of pipe yields text and the block after the try
\* finalizes the status
PipeFailed(path, text) ==
    owui' = [owui EXCEPT !.pc = "returned", !.path = path,
                         !.chat = @ \o <<text>>,
                         !.emitted = @ \o handle_done(owui.emitter)]

\* httpx.ConnectError while the request is sent
PipeConnectError ==
    /\ owui.pc = "start"
    /\ owui.has_messages
    /\ PipeFailed("connect error", ConnectErrorText)
    /\ PipeUnchanged

\* httpx.TimeoutException while the request is sent or the response read
PipeTimeout ==
    /\ owui.pc \in {"start", "reading"}
    /\ owui.has_messages
    /\ PipeFailed("timeout", TimeoutText)
    /\ PipeUnchanged

\* any other exception while the request is sent or the response read
PipeOtherError ==
    /\ owui.pc \in {"start", "reading"}
    /\ owui.has_messages
    /\ \E e \in OtherErrors : PipeFailed("exception", ErrorText(e))
    /\ PipeUnchanged

\* the backend answered with a status other than 200: the message is
\* yielded and pipe returns
PipeBadStatus ==
    /\ owui.pc = "start"
    /\ owui.has_messages
    /\ owui' = [owui EXCEPT !.pc = "returned", !.path = "bad status",
                            !.chat = @ \o <<BadStatusText>>]
    /\ PipeUnchanged

\* the backend answered with status 200
PipeConnected ==
    /\ owui.pc = "start"
    /\ owui.has_messages
    /\ owui' = [owui EXCEPT !.pc = "reading"]
    /\ PipeUnchanged

\* aiter_lines gives the next line and the loop body runs on it
PipeRead ==
    /\ owui.pc = "reading"
    /\ Len(owui.received) < MaxPipeEvents
    /\ \E frame \in PipeFrames :
         IF frame = NoDictLine
         THEN owui' = [owui EXCEPT
                         !.received = Append(@, frame),
                         !.pc = "returned", !.path = "exception",
                         !.chat = @ \o <<ErrorText(NoGetError)>>,
                         !.emitted = @ \o handle_done(owui.emitter)]
         ELSE owui' = [owui EXCEPT
                         !.received = Append(@, frame),
                         !.chat = @ \o PipeYield(frame),
                         !.emitted = @ \o PipeEmit(PipeEventType(frame),
                                                   Get(frame, "data", <<>>),
                                                   owui.emitter,
                                                   owui.citations,
                                                   owui.subagent_status)]
    /\ PipeUnchanged

\* aiter_lines is exhausted: the block after the try finalizes the status
PipeStreamEnds ==
    /\ owui.pc = "reading"
    /\ owui' = [owui EXCEPT !.pc = "returned", !.path = "end of stream",
                            !.emitted = @ \o handle_done(owui.emitter)]
    /\ PipeUnchanged

NextClient ==
    \/ StreamPostFails
    \/ StreamConnected
    \/ StreamRead
    \/ StreamReadFails
    \/ StreamEnds
    \/ PipeNoMessages
    \/ PipeConnectError
    \/ PipeTimeout
    \/ PipeOtherError
    \/ PipeBadStatus
    \/ PipeConnected
    \/ PipeRead
    \/ PipeStreamEnds

SpecClient ==
    InitClient /\ [][NextClient]_vars

(***************************************************************************)
(* Vocabulary of C17.                                                      *)
(***************************************************************************)
BadJsonLine ==
    DataPrefix \o <<"{">>

\* the index of the first done frame of lines, Len(lines) + 1 without one
FirstDone(lines) ==
    IF \E i \in 1..Len(lines) : lines[i] = SseLine(DoneFrame)
    THEN CHOOSE i \in 1..Len(lines) :
           /\ lines[i] = SseLine(DoneFrame)
           /\ \A j \in 1..(i - 1) : lines[j] # SseLine(DoneFrame)
    ELSE Len(lines) + 1

\* the content value of a line that is a content frame, as Python strings
ContentOf(line) ==
    IF \E text \in StreamTexts : line = SseLine(ContentFrame(text))
    THEN <<JStr(CHOOSE text \in StreamTexts :
                  line = SseLine(ContentFrame(text)))>>
    ELSE <<>>

\* the content values of the content frames before the first done frame
ContentsBeforeDone(lines) ==
    Concat([i \in 1..(FirstDone(lines) - 1) |-> ContentOf(lines[i])])

\* C17: while no request error occurred and no line carried JSON that is
\* no object, the strings _stream_response has yielded are, in order, the
\* content values of the content frames received before the first done
\* frame; the generator reads nothing after a done frame; and a data line
\* that is no valid JSON changes neither what was yielded nor that the
\* generator keeps reading.
C17_OrderPreserved ==
    /\ [](client.pc \in {"reading", "ended"} /\ client.error = None
            => /\ client.yielded = ContentsBeforeDone(client.received)
               /\ FirstDone(client.received) >= Len(client.received))
    /\ [][client.pc = "reading"
            /\ client'.received = Append(client.received, BadJsonLine)
            => /\ client'.pc = "reading"
               /\ client'.yielded = client.yielded]_vars

\* two frames with a skipped line between them were yielded in order
C17_Witness ==
    /\ client.pc = "reading"
    /\ Len(client.received) >= 3
    /\ client.received[2] = BadJsonLine
    /\ client.yielded = <<JStr(<<"b", " ">>), JStr(<<"a">>)>>

(***************************************************************************)
(* Vocabulary of C18 to C20.                                               *)
(***************************************************************************)
CompleteStatus ==
    [type |-> "status", data |-> [description |-> CompleteText, done |-> TRUE]]

\* C18: when the request fails before a line was read, the pipeline
\* generator has yielded exactly the one error text and has ended without
\* an exception, and the Open WebUI pipe has yielded exactly the one error
\* text of a refused connection or a timeout, has returned, and has sent
\* the Complete status with done true as its only event when it was given
\* an emitter; a failure never leaves a pipe still reading.
C18_ConnectionFailure ==
    /\ client.pc # "idle" /\ client.error # None
         => /\ client.pc = "ended"
            /\ client.received = <<>>
                 => /\ Len(client.yielded) = 1
                    /\ client.yielded[1].k = "str"
                    /\ Contains(client.yielded[1].s, client.error)
    /\ owui.pc # "idle" /\ owui.path \in {"connect error", "timeout"}
         => /\ owui.pc = "returned"
            /\ owui.received = <<>>
                 => /\ owui.chat
                         = <<IF owui.path = "timeout" THEN TimeoutText
                             ELSE ConnectErrorText>>
                    /\ owui.emitted = IF owui.emitter THEN <<CompleteStatus>>
                                      ELSE <<>>

\* the request of the Open WebUI pipe timed out before any event and the
\* emitter got the final status
C18_Witness ==
    /\ owui.pc = "returned"
    /\ owui.path = "timeout"
    /\ owui.received = <<>>
    /\ owui.emitter
    /\ owui.emitted = <<CompleteStatus>>

\* the frame is a typed event of the given type
IsTyped(frame, event_type) ==
    /\ "type" \in DOMAIN frame
    /\ frame.type = event_type

\* the agent_depth of a typed event, 0 when it carries none
DepthOf(frame) ==
    IF "data" \in DOMAIN frame /\ "agent_depth" \in DOMAIN frame.data
    THEN frame.data.agent_depth ELSE 0

\* the content of the token events of the main agent among frames, in order
MainTokens(frames) ==
    Concat([i \in 1..Len(frames) |->
              IF IsTyped(frames[i], "token") /\ DepthOf(frames[i]) = 0
              THEN <<frames[i].data.content>> ELSE <<>>])

\* the positions of the citations among the events sent to the emitter
Citations(events) ==
    {k \in 1..Len(events) : events[k].type = "source"}

\* the positions of the tool_end events of the main agent among frames
MainToolEnds(frames) ==
    {i \in 1..Len(frames) :
       IsTyped(frames[i], "tool_end") /\ DepthOf(frames[i]) = 0}

\* C19: as long as no error ended the call, the texts the Open WebUI pipe
\* has yielded to the chat are exactly the contents of the token events
\* with agent_depth 0 (an absent agent_depth counts as 0), in order; every
\* citation it has sent carries the result of a tool_end event with
\* agent_depth 0, there are no more citations than such events, and there
\* are none unless citations are enabled and an emitter is present.
C19_OnlyMainAgent ==
    (owui.pc # "idle" /\ owui.path \in {None, "end of stream"}) =>
        /\ owui.chat = MainTokens(owui.received)
        /\ Cardinality(Citations(owui.emitted))
             <= Cardinality(MainToolEnds(owui.received))
        /\ \A k \in Citations(owui.emitted) :
             /\ owui.emitter
             /\ owui.citations
             /\ \E i \in MainToolEnds(owui.received) :
                  owui.emitted[k].data.metadata[1].full_result
                    = owui.received[i].data.result

\* with emitter and citations on, a tool_end of a sub-agent left no
\* citation and the token of the main agent after it reached the chat
C19_Witness ==
    /\ owui.pc = "reading"
    /\ owui.emitter
    /\ owui.citations
    /\ Len(owui.received) >= 2
    /\ IsTyped(owui.received[1], "tool_end")
    /\ DepthOf(owui.received[1]) > 0
    /\ owui.received[2] = emit_token(<<"a">>, 0)
    /\ Citations(owui.emitted) = {}
    /\ owui.chat = <<<<"a">>>>

\* C20: when the Open WebUI pipe was given an emitter and has finished, by
\* whichever path, the last event it sent to the emitter is the status
\* with description Complete and done true.
C20_AlwaysFinalized ==
    (owui.pc = "returned" /\ owui.emitter) =>
        /\ owui.emitted # <<>>
        /\ owui.emitted[Len(owui.emitted)] = CompleteStatus

(***************************************************************************)
(* Vocabulary of C21 and C22: the frames of one pass of the loop body.     *)
(***************************************************************************)
\* the frames generate_stream yielded while it handled its i-th event
FramesOfPass(i) ==
    HandleEvent(LocalsBefore(i), consumed[i], show_tool_details).frames

\* a frame format_tool_result built
IsToolResult(frame) ==
    /\ "content" \in DOMAIN frame
    /\ StartsWith(frame.content, ToolLabelOpen)

\* how many tool-result frames the frames hold
ToolResults(frames) ==
    Cardinality({k \in 1..Len(frames) : IsToolResult(frames[k])})

\* the positions of the start events with run identifier r
StartsOf(r) ==
    {i \in 1..Len(consumed) : IsStart(consumed[i]) /\ consumed[i].run_id = r}

\* the positions of the end events with run identifier r whose pass yielded
\* a tool-result frame
ReportedEndsOf(r) ==
    {i \in 1..Len(consumed) :
       /\ IsEnd(consumed[i])
       /\ consumed[i].run_id = r
       /\ ToolResults(FramesOfPass(i)) > 0}

\* C21: for every run identifier, generate_stream has emitted no more
\* tool-result frames for it than it has seen start events for it.
C21_ReportedAtMostOnce ==
    pc # "raised" =>
        \A r \in RunIds :
            Cardinality(ReportedEndsOf(r)) <= Cardinality(StartsOf(r))

\* the stack without its top
Popped(stack) ==
    SubSeq(stack, 1, Len(stack) - 1)

\* the event is the end of a recorded invocation
RecordedEnd(e) ==
    IsEnd(e) /\ e.run_id \in DOMAIN tool_info

\* the event is the end of the invocation on top of the stack
EndsTop(e) ==
    /\ RecordedEnd(e)
    /\ subagent_stack # <<>>
    /\ Last(subagent_stack) = e.run_id

\* C22: in every pass of the loop that does not raise, the stack gets
\* shorter only by the end event of the run identifier on its top, which
\* removes the top and yields nothing; the end of any other recorded
\* invocation, a delegation below the top included, leaves the stack
\* unchanged and is handled as a tool end: with tool details shown the pass
\* ends with the tool-result frame of its name and output, its only one,
\* and without them it yields nothing.
C22_PopOnlyTop ==
    [][(ConsumeStep /\ pc' = "streaming") =>
         /\ Len(subagent_stack') < Len(subagent_stack)
              => EndsTop(Last(consumed'))
         /\ EndsTop(Last(consumed'))
              => /\ subagent_stack' = Popped(subagent_stack)
                 /\ NewFrames = <<>>
         /\ (RecordedEnd(Last(consumed')) /\ ~EndsTop(Last(consumed')))
              => /\ subagent_stack' = subagent_stack
                 /\ ToolResults(NewFrames)
                      = IF show_tool_details THEN 1 ELSE 0
                 /\ show_tool_details
                      => Last(NewFrames)
                           = ContentFrame(format_tool_result(
                               tool_info[Last(consumed').run_id].name,
                               OutputStr(Last(consumed'))))]_vars

\* the outer of two open delegations ended: the stack kept both and the
\* end was reported as a tool result
C22_Witness ==
    /\ show_tool_details
    /\ pc = "streaming"
    /\ Len(consumed) = 3
    /\ consumed[1] = StartEvent("r1", TaskName)
    /\ consumed[2] = StartEvent("r2", TaskName)
    /\ consumed[3] = EndEvent("r1", JStr(<<"o", "k">>))
    /\ subagent_stack = <<"r1", "r2">>
    /\ IsToolResult(Last(out))

(***************************************************************************)
(* Vocabulary of C23 and C24: the frames of the details block.             *)
(***************************************************************************)
\* the positions of the frames that open and that close the details block
Opens ==
    {i \in 1..Len(out) : out[i] = ContentFrame(DetailsOpen)}

Closes ==
    {i \in 1..Len(out) : out[i] = ContentFrame(DetailsClose)}

IsPrefix(frame) ==
    frame \in {ContentFrame(AIPrefix), ContentFrame(SubAgentPrefix)}

\* C23: when generate_stream has returned after the upstream was
\* exhausted, its output opens the details block at most once and with its
\* very first frame, so that no prefix, token or tool-result frame comes
\* before; it closes the block exactly once if it opened it and not at all
\* otherwise; the closing frame comes after the opening frame and only the
\* duplicated final content, if any, and done follow it, neither a prefix
\* nor a tool-result frame; a call that opened no block yielded no frame of
\* a block; with show_tool_details false it yields neither frame.
C23_DetailsWellFormed ==
    pc = "closed" =>
        /\ Cardinality(Opens) <= 1
        /\ Cardinality(Closes) = Cardinality(Opens)
        /\ \A o \in Opens : o = 1
        /\ \A c \in Closes :
             /\ c > 1
             /\ Len(out) - c \in {1, 2}
             /\ \A k \in (c + 1)..Len(out) :
                  ~IsPrefix(out[k]) /\ ~IsToolResult(out[k])
        /\ Opens = {} =>
             \A k \in 1..Len(out) :
                  /\ ~IsPrefix(out[k])
                  /\ ~IsToolResult(out[k])
                  /\ out[k] # ContentFrame(BlankLine)
        /\ ~show_tool_details => Opens = {} /\ Closes = {}
        /\ Last(out) = DoneFrame

\* a tool result and a streamed answer inside one block, closed before the
\* duplicated answer
C23_Witness ==
    /\ pc = "closed"
    /\ show_tool_details
    /\ Len(out) = 8
    /\ out[1] = ContentFrame(DetailsOpen)
    /\ IsToolResult(out[2])
    /\ out[3] = ContentFrame(AIPrefix)
    /\ out[4] = ContentFrame(<<"a">>)
    /\ out[6] = ContentFrame(DetailsClose)
    /\ out[7] = ContentFrame(<<"a">>)

\* the consumed events have the keys their branches read, unique run
\* identifiers, and delegations that end innermost first
WellFormed ==
    /\ \A i \in 1..Len(consumed) : ~Malformed(consumed[i])
    /\ Matched(consumed)
    /\ ClosesLIFO(consumed)

\* the positions of the prefix frames of the output
Prefixes ==
    {i \in 1..Len(out) : IsPrefix(out[i])}

\* the most recent prefix frame of the output
LastPrefix ==
    out[CHOOSE m \in Prefixes : \A n \in Prefixes : n <= m]

\* C24: with tool details shown and well-formed events, right after a
\* token with text was handled the most recent prefix frame of the output
\* is the Sub-agent prefix if the delegation stack is not empty and the AI
\* prefix if it is empty.
C24_RightSpeaker ==
    (pc = "streaming" /\ show_tool_details /\ WellFormed
       /\ consumed # <<>> /\ TokenText(Last(consumed)) # <<>>) =>
        /\ Prefixes # {}
        /\ LastPrefix = ContentFrame(IF subagent_stack # <<>>
                                     THEN SubAgentPrefix ELSE AIPrefix)

(***************************************************************************)
(* Vocabulary of C25: the preview inside a tool-result frame.              *)
(***************************************************************************)
\* the text format_tool_result placed between the label of the tool and
\* the blank line that ends the frame
ShownPreview ==
    SubSeq(norm.frames[1].content,
           Len(ToolLabelOpen \o LsName \o ToolLabelClose) + 1,
           Len(norm.frames[1].content) - Len(BlankLine))

\* the cleaned text of the tool output
Cleaned ==
    clean_tool_result(NormInput)

\* the first PreviewLen characters of the cleaned text, with the marker
\* when something was cut
CutPreview ==
    IF Len(Cleaned) > PreviewLen
    THEN SubSeq(Cleaned, 1, PreviewLen) \o <<".", ".", ".">>
    ELSE Cleaned

\* the length of the longest text html.escape writes for one character,
\* that of &quot;
EntityLen ==
    Len(html_escape(<<"\"">>))

\* C25 as claimed: the text after the tool name has at most PreviewLen + 3
\* characters, and a cleaned text of at most PreviewLen characters is shown
\* in full without the marker.
C25_PreviewAtMost203 ==
    norm.pc = "ended" =>
        /\ Len(ShownPreview) <= PreviewLen + 3
        /\ Len(Cleaned) <= PreviewLen => ShownPreview = html_escape(Cleaned)

\* C25: the text after the tool name is the HTML-escaped form of a text of
\* at most PreviewLen + 3 characters: the cleaned output in full when it
\* has at most PreviewLen characters, else its first PreviewLen characters
\* and the marker; escaped, it has at most EntityLen * PreviewLen + 3
\* characters.
C25_PreviewBounded ==
    norm.pc = "ended" =>
        /\ ShownPreview = html_escape(CutPreview)
        /\ Len(CutPreview) <= PreviewLen + 3
        /\ Len(ShownPreview) <= EntityLen * PreviewLen + 3
        /\ Len(Cleaned) <= PreviewLen => ShownPreview = html_escape(Cleaned)

\* a cleaned text longer than the preview with quotes among its first
\* characters: cut, marked and longer than PreviewLen + 3 once escaped
C25_Witness ==
    /\ norm.pc = "ended"
    /\ NormInput = AsCommand(AsContent(LongText))
    /\ Len(Cleaned) > PreviewLen
    /\ Len(ShownPreview) > PreviewLen + 3
    /\ SubSeq(ShownPreview, Len(ShownPreview) - 2, Len(ShownPreview))
         = <<".", ".", ".">>

(***************************************************************************)
(* Vocabulary of C26: the citations of the Open WebUI pipe.                *)
(***************************************************************************)
IsSource(event) ==
    event.type = "source"

\* the tool_end events among frames that the claim says are cited: those
\* of the main agent whose result is neither empty nor the completion mark
\* of clean_tool_result
Citable(frames) ==
    Concat([i \in 1..Len(frames) |->
              IF /\ IsTyped(frames[i], "tool_end")
                 /\ DepthOf(frames[i]) = 0
                 /\ frames[i].data.result \notin {<<>>, Completed}
              THEN <<frames[i]>> ELSE <<>>])

\* the citations sent to the emitter, in order
Cited ==
    SelectSeq(owui.emitted, IsSource)

\* C26: as long as no error ended the call, with an emitter and citations
\* enabled the citations the pipe has sent are, one for one and in order,
\* those of the depth-0 tool_end events whose result is neither empty nor
\* the completion mark; each has the first 500 characters of the result as
\* its document and the full result in its metadata; without emitter or
\* with citations disabled none is sent.
C26_PlaceholderNotCited ==
    (owui.pc # "idle" /\ owui.path \in {None, "end of stream"}) =>
        IF owui.emitter /\ owui.citations
        THEN /\ Len(Cited) = Len(Citable(owui.received))
             /\ \A k \in 1..Len(Cited) :
                  /\ Cited[k].data.document
                       = <<Slice(Citable(owui.received)[k].data.result,
                                 0, 500)>>
                  /\ Cited[k].data.metadata[1].full_result
                       = Citable(owui.received)[k].data.result
        ELSE Cited = <<>>

====
